---- MODULE Spec2Model ----
(***************************************************************************)
(* The quiz engine of src/components/QuizBlock.vue as a state machine.     *)
(*                                                                         *)
(* One browser tab: the component is mounted (onMounted), the student      *)
(* starts, navigates, answers, finishes; the 1 s interval (updateTimer)    *)
(* and the blur / visibilitychange listeners (checkFocus) interleave with  *)
(* the asynchronous grading pass of finishTest, which yields at every      *)
(* await.  localStorage survives a reload of the page; everything else is  *)
(* rebuilt by the next onMounted.                                          *)
(*                                                                         *)
(* Texts (SQL statements, the timer display, joined option ids) are        *)
(* sequences of characters, so that trimming, terminator stripping and     *)
(* padding are computed, not assumed.                                      *)
(***************************************************************************)
EXTENDS Integers, Sequences, FiniteSets, TLC

VARIABLES
    props,          \* defineProps: requiredIds, count (fixed per page)
    isChrome,       \* the user-agent test of line 14
    subtle,         \* crypto.subtle is defined and digest resolves (line 73)
    pc,             \* position of onMounted: "mount", "fetch", "idle"
    status,         \* ref status
    testData,       \* ref testData (NoData = null)
    state,          \* ref state
    timeLeft,       \* ref timeLeft
    timerInterval,  \* TRUE while timerInterval names a live interval
    listeners,      \* TRUE while checkFocus is attached to blur / visibilitychange
    passes,         \* invocations of finishTest suspended on an await
    forced,         \* finishTest invocations made by updateTimer in this mount
    judged,         \* q.isCorrect as read at line 310 by the finishTest that ended last
    dbs,            \* the PGlite instances that finishTest made, each with the
                    \* statements submitted to it and the question they were for
    stored,         \* localStorage[storageKey] (NoBlob = absent)
    now,            \* Date.now()
    editor          \* the QuestionSqlSelect instance on screen (NoEditor = none)

vars == <<props, isChrome, subtle, pc, status, testData, state, timeLeft,
          timerInterval, listeners, passes, forced, judged, dbs, stored, now,
          editor>>

-----------------------------------------------------------------------------
(* Bounds of the model *)

Epoch == 1
ClockStep == 60000
MaxClockSteps == 1
MaxViolations == 1
MaxPasses == 1

(* focus losses followed in a session whose document has no limit *)
MaxEvents == 3

(* time recorded for one question up to which direct calls are followed *)
MaxRecorded == 120000

-----------------------------------------------------------------------------
(* Generic helpers *)

Max(a, b) == IF a >= b THEN a ELSE b

RECURSIVE SumSeq(_)
SumSeq(s) == IF s = <<>> THEN 0 ELSE Head(s) + SumSeq(Tail(s))

RemoveAt(s, i) == SubSeq(s, 1, i - 1) \o SubSeq(s, i + 1, Len(s))

IndexOf(s, x) ==
    IF \E i \in 1..Len(s) : s[i] = x
    THEN CHOOSE i \in 1..Len(s) : s[i] = x /\ \A j \in 1..(i - 1) : s[j] # x
    ELSE 0

(* every outcome of Array.prototype.sort with the random comparator *)
Shuffles(s) ==
    { [i \in 1..Len(s) |-> s[p[i]]] :
        p \in { f \in [1..Len(s) -> 1..Len(s)] :
                    \A i, j \in 1..Len(s) : i # j => f[i] # f[j] } }

-----------------------------------------------------------------------------
(* Texts *)

WhiteSpace == {" "}

RECURSIVE TrimStart(_)
TrimStart(s) ==
    IF s # <<>> /\ Head(s) \in WhiteSpace THEN TrimStart(Tail(s)) ELSE s

RECURSIVE TrimEnd(_)
TrimEnd(s) ==
    IF s # <<>> /\ s[Len(s)] \in WhiteSpace
    THEN TrimEnd(SubSeq(s, 1, Len(s) - 1))
    ELSE s

Trim(s) == TrimEnd(TrimStart(s))

(* .replace(/;$/, "") *)
StripTerminator(s) ==
    IF s # <<>> /\ s[Len(s)] = ";" THEN SubSeq(s, 1, Len(s) - 1) ELSE s

DigitChars == <<"0", "1", "2", "3", "4", "5", "6", "7", "8", "9">>

RECURSIVE NumToString(_)
NumToString(n) ==
    IF n < 10 THEN <<DigitChars[n + 1]>>
    ELSE NumToString(n \div 10) \o <<DigitChars[(n % 10) + 1]>>

PadStart2(s) == IF Len(s) < 2 THEN <<"0">> \o s ELSE s

FormatRemaining(remaining) ==
    LET m == remaining \div 60000
        s == (remaining % 60000) \div 1000
    IN  PadStart2(NumToString(m)) \o <<":">> \o PadStart2(NumToString(s))

ZeroTime == <<"0", "0", ":", "0", "0">>

(* default Array.prototype.sort(): by UTF-16 code units *)
Alphabet == <<"a", "b", "c">>

CharRank(c) == IndexOf(Alphabet, c)

RECURSIVE InsertSorted(_, _)
InsertSorted(s, x) ==
    IF s = <<>> THEN <<x>>
    ELSE IF CharRank(x) < CharRank(Head(s)) THEN <<x>> \o s
    ELSE <<Head(s)>> \o InsertSorted(Tail(s), x)

RECURSIVE SortIds(_)
SortIds(s) == IF s = <<>> THEN <<>> ELSE InsertSorted(SortIds(Tail(s)), Head(s))

RECURSIVE Join(_)
Join(s) ==
    IF s = <<>> THEN <<>>
    ELSE IF Len(s) = 1 THEN <<Head(s)>>
    ELSE <<Head(s), ",">> \o Join(Tail(s))

(* SHA-256 as a collision-free digest of the message *)
sha256(message) == <<"sha256", message>>

-----------------------------------------------------------------------------
(* The question-set document served at quizzes/<fileName> *)

McQuestion ==
    [ id |-> "q1", type |-> "multiple-choice", points |-> 1,
      options |-> <<"a">>,
      correct_hash |-> sha256(<<"a">>),
      correct_query |-> <<>>, sort_required |-> FALSE, init_sql |-> <<>>,
      isCorrect |-> "unset" ]

SqlQuestion ==
    [ id |-> "q2", type |-> "sql-select", points |-> 2,
      options |-> <<>>,
      correct_hash |-> <<>>,
      correct_query |-> <<"R", ";">>, sort_required |-> FALSE, init_sql |-> <<>>,
      isCorrect |-> "unset" ]

(* grade -> minimum percentage *)
Grading == [ g \in { <<"3">>, <<"4">>, <<"5">> } |->
               IF g = <<"5">> THEN 90 ELSE IF g = <<"4">> THEN 70 ELSE 50 ]

(* the document with max_cheat_attempts = n; 0 stands for an absent field *)
QuizDoc(n) ==
    [ time_limit |-> 1, max_cheat_attempts |-> n, grading |-> Grading,
      init_sql |-> <<>>, questions |-> <<McQuestion, SqlQuestion>> ]

(* the documents a fetch can return: the teacher may edit the limit between loads *)
CheatLimits == {0, 1}

(* a larger question set, served at the path "pool" *)
PoolQuestions ==
    <<McQuestion, SqlQuestion, [ SqlQuestion EXCEPT !.id = "q3", !.points = 3 ]>>

(* a multiple-choice question with three options, two of them correct *)
ChoiceQuestion ==
    [ McQuestion EXCEPT !.id = "q4",
                        !.options = <<"a", "b", "c">>,
                        !.correct_hash = sha256(<<"a", ",", "b">>) ]

(* lines 83-89: the document fetched from props.jsonPath *)
Served(jsonPath, n) ==
    IF jsonPath = "pool" THEN [ QuizDoc(n) EXCEPT !.questions = PoolQuestions ]
    ELSE IF jsonPath = "choice" THEN [ QuizDoc(n) EXCEPT !.questions = <<ChoiceQuestion>> ]
    ELSE QuizDoc(n)

(* reference statements a question can carry, and answers a student can type *)
RefTexts ==
    { <<"R", ";">>, <<"R">>, <<" ", "S", " ", ";">>, <<"U">>, <<"D">>, <<"V">>,
      <<"R", ";", ";">> }

StudentTexts ==
    { <<>>, <<" ">>, <<"R">>, <<"R", ";">>, <<" ", "S", ";", " ">>, <<"D">>, <<"T">>,
      <<"U">>, <<"X">>, <<"R", ";", ";">>, <<"R", " ", "-", "c">>, <<"V">> }

(* the init_sql lists a document or a question can carry: none, one that    *)
(* makes the table, one that raises                                         *)
SetupTexts == { <<>>, <<<<"A">>>>, <<<<"F">>>> }

(* a second SQL question, with its own table, answered as its reference is *)
TableQuestion ==
    [ SqlQuestion EXCEPT !.id = "q6", !.correct_query = <<"V">>,
                         !.sort_required = TRUE, !.init_sql = <<<<"A">>>> ]

NoData == [ time_limit |-> 0, max_cheat_attempts |-> 0, grading |-> <<>>,
            init_sql |-> <<>>, questions |-> <<>> ]

(* the <QuizBlock> tags of the pages: required-ids and count *)
PropsChoices ==
    { [ jsonPath |-> "quiz", requiredIds |-> <<"q1">>, count |-> 1 ],
      [ jsonPath |-> "quiz", requiredIds |-> <<"q2">>, count |-> 1 ],
      [ jsonPath |-> "quiz", requiredIds |-> <<"q2">>, count |-> 2 ] }

(* what the student can type into the SQL editor *)
SqlTexts == { <<>>, <<"R", ";">> }

-----------------------------------------------------------------------------
(* The embedded database (PGlite), as far as grading observes it *)

(* the result of each statement of the model: a letter stands for a SELECT *)
Rows ==
    [ b \in {"R", "S", "D", "T", "U", "V"} |->
        IF b = "R" THEN <<1, 2>>
        ELSE IF b = "S" THEN <<2, 1>>
        ELSE IF b = "D" THEN <<1, 1>>
        ELSE IF b = "T" THEN <<1, 1, 2>>
        ELSE IF b = "U" THEN <<1, 2, 2>>
        ELSE <<3>> ]

(* the tables a SELECT reads: V reads the table that the setup statement A makes *)
Needs == [ b \in DOMAIN Rows |-> IF b = "V" THEN {"A"} ELSE {} ]

(* new PGlite(): an instance without tables *)
FreshDb == {}

(* "-" stands for the start of a line comment: the rest of the line is not read *)
Uncomment(text) ==
    IF IndexOf(text, "-") = 0 THEN text ELSE SubSeq(text, 1, IndexOf(text, "-") - 1)

IsInk(c) == c \notin WhiteSpace

(* what the parser reads of a one-line text *)
Lex(text) == SelectSeq(Uncomment(text), IsInk)

(* db.exec(sql) of a setup statement: A creates its table, and raises if    *)
(* the table exists; every other text raises                                *)
Exec(db, sql) ==
    IF sql = <<"A">> /\ "A" \notin db
    THEN [ ok |-> TRUE, db |-> db \cup {"A"} ]
    ELSE [ ok |-> FALSE, db |-> db ]

(* for (const sql of initSql) await db.exec(sql): up to the first error;    *)
(* ran lists the statements submitted                                       *)
RECURSIVE RunSetup(_, _)
RunSetup(db, initSql) ==
    IF initSql = <<>> THEN [ ok |-> TRUE, db |-> db, ran |-> <<>> ]
    ELSE LET first == Exec(db, Head(initSql))
         IN  IF ~first.ok THEN [ ok |-> FALSE, db |-> db, ran |-> <<Head(initSql)>> ]
             ELSE LET rest == RunSetup(first.db, Tail(initSql))
                  IN  [ rest EXCEPT !.ran = <<Head(initSql)>> \o @ ]

Count(rows, v) == Cardinality({ i \in 1..Len(rows) : rows[i] = v })

(* the row count of ((a) EXCEPT ALL (b)): multiset difference *)
ExceptAllCount(a, b) ==
    LET vals == { a[i] : i \in 1..Len(a) }
        RECURSIVE Sum(_)
        Sum(S) == IF S = {} THEN 0
                  ELSE LET v == CHOOSE x \in S : TRUE
                       IN  Max(0, Count(a, v) - Count(b, v)) + Sum(S \ {v})
    IN  Sum(vals)

(* the comparison statement of lines 269-272 and 274-277, on one line:     *)
(* "E" stands for EXCEPT ALL; the row count of the difference is implied    *)
CompareText(a, b) == <<"(", "(">> \o a \o <<")", "E", "(">> \o b \o <<")", ")">>

(* db.query(text) on an instance holding the tables db: the rows of a       *)
(* statement, or a raised error.  A SELECT may end in terminators; a        *)
(* comparison statement must have both operands bare and closed             *)
Query(db, text) ==
    LET lexed == Lex(text)
    IN  IF /\ lexed # <<>>
           /\ lexed[1] \in DOMAIN Rows
           /\ \A i \in 2..Len(lexed) : lexed[i] = ";"
        THEN IF Needs[lexed[1]] \subseteq db
             THEN [ ok |-> TRUE, rows |-> Rows[lexed[1]] ]
             ELSE [ ok |-> FALSE, rows |-> <<>> ]
        ELSE IF /\ Len(lexed) = 9
                /\ lexed[1] = "(" /\ lexed[2] = "(" /\ lexed[3] \in DOMAIN Rows
                /\ lexed[4] = ")" /\ lexed[5] = "E" /\ lexed[6] = "("
                /\ lexed[7] \in DOMAIN Rows /\ lexed[8] = ")" /\ lexed[9] = ")"
                /\ (Needs[lexed[3]] \cup Needs[lexed[7]]) \subseteq db
        THEN [ ok |-> TRUE,
               rows |-> <<ExceptAllCount(Rows[lexed[3]], Rows[lexed[7]])>> ]
        ELSE [ ok |-> FALSE, rows |-> <<>> ]

(* the SQL branch without the return to the loop at line 262: the          *)
(* comparison is submitted after a student statement that raised            *)
SqlRun_ComparesAnyway(q, studentSql) ==
    LET setup == RunSetup(FreshDb, q.init_sql)
        db == setup.db
        correctQuery == StripTerminator(Trim(q.correct_query))
        extraText == CompareText(studentSql, correctQuery)
        missingText == CompareText(correctQuery, studentSql)
        checkExtra == Query(db, extraText)
        checkMissing == Query(db, missingText)
        dataCorrect == checkExtra.rows[1] = 0 /\ checkMissing.rows[1] = 0
        resStudent == Query(db, studentSql)
        resCorrect == Query(db, correctQuery)
    IN  IF ~setup.ok THEN [ correct |-> FALSE, statements |-> setup.ran ]
        ELSE IF ~resStudent.ok
        THEN [ correct |-> FALSE, statements |-> setup.ran \o <<studentSql, extraText>> ]
        ELSE IF ~checkExtra.ok
        THEN [ correct |-> FALSE, statements |-> setup.ran \o <<studentSql, extraText>> ]
        ELSE IF ~checkMissing.ok
        THEN [ correct |-> FALSE,
               statements |-> setup.ran \o <<studentSql, extraText, missingText>> ]
        ELSE IF dataCorrect /\ q.sort_required
        THEN [ correct |-> resCorrect.ok /\ resStudent.rows = resCorrect.rows,
               statements |-> setup.ran \o <<studentSql, extraText, missingText,
                                              studentSql, correctQuery>> ]
        ELSE [ correct |-> dataCorrect,
               statements |-> setup.ran \o <<studentSql, extraText, missingText>> ]

(* lines 250-294 on the fresh instance of one SQL question: the verdict,    *)
(* and the statements submitted to the instance, in order.  A raised error  *)
(* ends in one of the two catch blocks with isCorrect = false               *)
SqlRun(q, studentSql) ==
    LET setup == RunSetup(FreshDb, q.init_sql)
        db == setup.db
        correctQuery == StripTerminator(Trim(q.correct_query))
        extraText == CompareText(studentSql, correctQuery)
        missingText == CompareText(correctQuery, studentSql)
        checkExtra == Query(db, extraText)
        checkMissing == Query(db, missingText)
        dataCorrect == checkExtra.rows[1] = 0 /\ checkMissing.rows[1] = 0
        resStudent == Query(db, studentSql)
        resCorrect == Query(db, correctQuery)
    IN  IF ~setup.ok THEN [ correct |-> FALSE, statements |-> setup.ran ]
        ELSE IF ~resStudent.ok
        THEN [ correct |-> FALSE, statements |-> setup.ran \o <<studentSql>> ]
        ELSE IF ~checkExtra.ok
        THEN [ correct |-> FALSE, statements |-> setup.ran \o <<studentSql, extraText>> ]
        ELSE IF ~checkMissing.ok
        THEN [ correct |-> FALSE,
               statements |-> setup.ran \o <<studentSql, extraText, missingText>> ]
        ELSE IF dataCorrect /\ q.sort_required
        THEN [ correct |-> resCorrect.ok /\ resStudent.rows = resCorrect.rows,
               statements |-> setup.ran \o <<studentSql, extraText, missingText,
                                              studentSql, correctQuery>> ]
        ELSE [ correct |-> dataCorrect,
               statements |-> setup.ran \o <<studentSql, extraText, missingText>> ]

(* the statements submitted on behalf of question id *)
Tagged(id, statements) ==
    [ i \in 1..Len(statements) |-> [ id |-> id, sql |-> statements[i] ] ]

(* the instance of the editor on screen: QuestionSqlSelect makes it when    *)
(* mounted and runs the document's init_sql on it (its lines 26-42, the     *)
(* prop of line 403)                                                        *)
EditorDb(td) == RunSetup(FreshDb, td.init_sql)

(* runQuery of the editor: the rows shown, or the error shown *)
EditorRun(td, text) ==
    IF EditorDb(td).ok THEN Query(EditorDb(td).db, text)
    ELSE [ ok |-> FALSE, rows |-> <<>> ]

(* q.isCorrect as lines 250-298 leave it *)
GradeSql(q, studentSql) == SqlRun(q, studentSql).correct

(* lines 303-304 *)
GradeChoice(q, joined) == sha256(joined) = q.correct_hash

-----------------------------------------------------------------------------
(* The session state (lines 29-43) and its persisted form *)

InitialState ==
    [ questions |-> <<>>, answers |-> <<>>, currentIndex |-> 0,
      startTime |-> 0, endTime |-> 0, questionTimings |-> <<>>,
      lastQuestionEntryTime |-> 0, cheatAttempts |-> 0, cheatLogs |-> <<>>,
      score |-> 0, maxScore |-> 0, grade |-> 0, isBlocked |-> FALSE ]

NoBlob == [ json |-> "none" ]

(* an item under the storage key that is not JSON text: JSON.parse throws *)
CorruptBlob == [ json |-> "corrupt" ]

(* a question as JSON.stringify writes it: a property whose value is        *)
(* undefined (isCorrect before grading) is left out                         *)
JsonQuestion(q) ==
    IF q.isCorrect = "unset" THEN [ f \in DOMAIN q \ {"isCorrect"} |-> q[f] ] ELSE q

(* a question as JSON.parse reads it: a property the text lacks is undefined *)
ParsedQuestion(j) ==
    IF "isCorrect" \in DOMAIN j THEN j ELSE j @@ [ isCorrect |-> "unset" ]

(* JSON.stringify(newVal) of line 127 *)
JsonStringify(st) ==
    [ json |-> "object",
      value |-> [ st EXCEPT !.questions = [ i \in 1..Len(@) |-> JsonQuestion(@[i]) ] ] ]

(* JSON.parse(saved) of line 93 *)
JsonParse(blob) ==
    [ blob.value EXCEPT !.questions = [ i \in 1..Len(@) |-> ParsedQuestion(@[i]) ] ]

(* the question on screen; currentIndex counts from 0 *)
CurrentQuestion(st) == st.questions[st.currentIndex + 1]

-----------------------------------------------------------------------------
(* QuestionPool: prepareQuestions, lines 132-164 *)

(* lines 137-143: move each required id found in the pool to selected *)
RECURSIVE TakeRequired(_, _, _)
TakeRequired(pool, selected, ids) ==
    IF ids = <<>> THEN [ pool |-> pool, selected |-> selected ]
    ELSE LET qIndex ==
                 IF \E i \in 1..Len(pool) : pool[i].id = Head(ids)
                 THEN CHOOSE i \in 1..Len(pool) :
                          /\ pool[i].id = Head(ids)
                          /\ \A j \in 1..(i - 1) : pool[j].id # Head(ids)
                 ELSE 0
         IN  IF qIndex # 0
             THEN TakeRequired(RemoveAt(pool, qIndex),
                               Append(selected, pool[qIndex]), Tail(ids))
             ELSE TakeRequired(pool, selected, Tail(ids))

(* lines 160-162: every question's option list is shuffled on its own *)
RECURSIVE ShuffleOptions(_)
ShuffleOptions(sel) ==
    IF sel = <<>> THEN { <<>> }
    ELSE { <<[Head(sel) EXCEPT !.options = o]>> \o rest :
               o \in Shuffles(Head(sel).options), rest \in ShuffleOptions(Tail(sel)) }

(* the selection without lines 136-144: the required ids are not taken first *)
Selections_NoRequired(questions, requiredIds, count) ==
    LET Slice(pool) == SubSeq(pool, 1, IF count < Len(pool) THEN count ELSE Len(pool))
    IN  UNION { Shuffles(IF count > 0 THEN Slice(pool) ELSE <<>>) :
                    pool \in Shuffles(questions) }

(* the selection taking one question more than needed: pool.slice(0, needed + 1) *)
Selections_OneMore(questions, requiredIds, count) ==
    LET req == TakeRequired(questions, <<>>, requiredIds)
        needed == count - Len(req.selected)
        Slice(pool) == SubSeq(pool, 1, IF needed + 1 < Len(pool) THEN needed + 1
                                       ELSE Len(pool))
    IN  UNION { Shuffles(IF needed > 0 THEN req.selected \o Slice(pool)
                                       ELSE req.selected) :
                    pool \in Shuffles(req.pool) }

(* lines 133-152: the selections the two random sorts can produce *)
Selections(questions, requiredIds, count) ==
    LET req == TakeRequired(questions, <<>>, requiredIds)
        needed == count - Len(req.selected)
        Slice(pool) == SubSeq(pool, 1, IF needed < Len(pool) THEN needed ELSE Len(pool))
    IN  UNION { Shuffles(IF needed > 0 THEN req.selected \o Slice(pool)
                                       ELSE req.selected) :
                    pool \in Shuffles(req.pool) }

(* prepareQuestions without the accumulation of line 158 *)
prepareQuestions_NoMaxScore(st, td, pr) ==
    { [ st EXCEPT
          !.questions = qs,
          !.answers = [ id \in { qs[i].id : i \in 1..Len(qs) } |-> <<>> ],
          !.questionTimings = [ id \in { qs[i].id : i \in 1..Len(qs) } |-> 0 ] ] :
        qs \in UNION { ShuffleOptions(sel) :
                          sel \in Selections(td.questions, pr.requiredIds, pr.count) } }

(* lines 154-163: the states prepareQuestions can leave *)
prepareQuestions(st, td, pr) ==
    { [ st EXCEPT
          !.questions = qs,
          !.answers = [ id \in { qs[i].id : i \in 1..Len(qs) } |-> <<>> ],
          !.questionTimings = [ id \in { qs[i].id : i \in 1..Len(qs) } |-> 0 ],
          !.maxScore = st.maxScore + SumSeq([ i \in 1..Len(qs) |-> qs[i].points ]) ] :
        qs \in UNION { ShuffleOptions(sel) :
                          sel \in Selections(td.questions, pr.requiredIds, pr.count) } }

-----------------------------------------------------------------------------
(* The handlers, as functions of the component's reactive state            *)
(*   m = [state, status, timeLeft, timerInterval, listeners, passes,       *)
(*        forced, judged, dbs],  t = Date.now(),  td = testData            *)

(* lines 192-196 *)
recordTime(st, t) ==
    LET currentQId == CurrentQuestion(st).id
        spent == t - st.lastQuestionEntryTime
    IN  [ st EXCEPT !.questionTimings[currentQId] = @ + spent ]

(* string comparison of two grade keys, as Array.prototype.sort() orders them *)
RECURSIVE KeyLess(_, _)
KeyLess(a, b) ==
    IF a = <<>> THEN b # <<>>
    ELSE IF b = <<>> THEN FALSE
    ELSE IF Head(a) = Head(b) THEN KeyLess(Tail(a), Tail(b))
    ELSE IndexOf(DigitChars, Head(a)) < IndexOf(DigitChars, Head(b))

(* Object.keys(grading).sort().reverse() *)
RECURSIVE SortedKeysReversed(_)
SortedKeysReversed(keys) ==
    IF keys = {} THEN <<>>
    ELSE LET top == CHOOSE k \in keys : \A o \in keys \ {k} : KeyLess(o, k)
         IN  <<top>> \o SortedKeysReversed(keys \ {top})

RECURSIVE ParseInt(_)
ParseInt(k) ==
    IF k = <<>> THEN 0
    ELSE 10 * ParseInt(SubSeq(k, 1, Len(k) - 1)) + (IndexOf(DigitChars, k[Len(k)]) - 1)

(* percent >= threshold with percent = (totalScore / maxScore) * 100;       *)
(* 0 / 0 is NaN, which compares false with everything                       *)
PercentAtLeast(totalScore, maxScore, threshold) ==
    IF maxScore = 0 THEN totalScore > 0
    ELSE totalScore * 100 >= threshold * maxScore

(* lines 318-325 *)
FinalGrade(totalScore, maxScore, grading) ==
    LET keys == SortedKeysReversed(DOMAIN grading)
        hit == { i \in 1..Len(keys) : PercentAtLeast(totalScore, maxScore, grading[keys[i]]) }
    IN  IF hit = {} THEN 2
        ELSE ParseInt(keys[CHOOSE i \in hit : \A j \in hit : i <= j])

(* lines 315-327: the tail of finishTest *)
FinishTail(m, totalScore, td) ==
    [ m EXCEPT !.state.score = totalScore,
               !.state.grade = FinalGrade(totalScore, m.state.maxScore, td.grading),
               !.status = "COMPLETED_VIEW" ]

(* the loop without the userAnswers.sort() of line 302 *)
RECURSIVE GradeFrom_NoSort(_, _, _, _)
GradeFrom_NoSort(m, i, totalScore, td) ==
    IF i > Len(m.state.questions) THEN FinishTail(m, totalScore, td)
    ELSE LET q == m.state.questions[i]
             answer == m.state.answers[q.id]
         IN  IF q.type = "sql-select"
             THEN IF Trim(answer) = <<>>
                  THEN GradeFrom_NoSort([ m EXCEPT !.state.questions[i].isCorrect = "false",
                                                   !.judged = Append(@, FALSE) ],
                                        i + 1, totalScore, td)
                  ELSE [ m EXCEPT !.passes =
                           Append(@, [ idx |-> i, totalScore |-> totalScore,
                                       input |-> StripTerminator(Trim(answer)),
                                       judged |-> m.judged,
                                       dbs |-> Append(m.dbs, <<>>) ]),
                                  !.judged = <<>>,
                                  !.dbs = <<>> ]
             ELSE [ m EXCEPT !.passes =
                               Append(@, [ idx |-> i, totalScore |-> totalScore,
                                           input |-> Join(answer),
                                           judged |-> m.judged,
                                           dbs |-> m.dbs ]),
                             !.judged = <<>>,
                             !.dbs = <<>> ]

(* the loop with one instance made before it and used by every question *)
RECURSIVE GradeFrom_SharedDb(_, _, _, _)
GradeFrom_SharedDb(m, i, totalScore, td) ==
    IF i > Len(m.state.questions) THEN FinishTail(m, totalScore, td)
    ELSE LET q == m.state.questions[i]
             answer == m.state.answers[q.id]
         IN  IF q.type = "sql-select"
             THEN IF Trim(answer) = <<>>
                  THEN GradeFrom_SharedDb([ m EXCEPT !.state.questions[i].isCorrect = "false",
                                                     !.judged = Append(@, FALSE) ],
                                          i + 1, totalScore, td)
                  ELSE [ m EXCEPT !.passes =
                           Append(@, [ idx |-> i, totalScore |-> totalScore,
                                       input |-> StripTerminator(Trim(answer)),
                                       judged |-> m.judged,
                                       dbs |-> IF m.dbs = <<>> THEN <<<<>>>> ELSE m.dbs ]),
                                  !.judged = <<>>,
                                  !.dbs = <<>> ]
             ELSE [ m EXCEPT !.state.answers[q.id] = SortIds(answer),
                             !.passes =
                               Append(@, [ idx |-> i, totalScore |-> totalScore,
                                           input |-> Join(SortIds(answer)),
                                           judged |-> m.judged,
                                           dbs |-> m.dbs ]),
                             !.judged = <<>>,
                             !.dbs = <<>> ]

(* the loop without the blank-answer test of lines 243-246 *)
RECURSIVE GradeFrom_RunsBlank(_, _, _, _)
GradeFrom_RunsBlank(m, i, totalScore, td) ==
    IF i > Len(m.state.questions) THEN FinishTail(m, totalScore, td)
    ELSE LET q == m.state.questions[i]
             answer == m.state.answers[q.id]
         IN  IF q.type = "sql-select"
             THEN [ m EXCEPT !.passes =
                      Append(@, [ idx |-> i, totalScore |-> totalScore,
                                  input |-> StripTerminator(Trim(answer)),
                                  judged |-> m.judged,
                                  dbs |-> Append(m.dbs, <<>>) ]),
                             !.judged = <<>>,
                             !.dbs = <<>> ]
             ELSE [ m EXCEPT !.state.answers[q.id] = SortIds(answer),
                             !.passes =
                               Append(@, [ idx |-> i, totalScore |-> totalScore,
                                           input |-> Join(SortIds(answer)),
                                           judged |-> m.judged,
                                           dbs |-> m.dbs ]),
                             !.judged = <<>>,
                             !.dbs = <<>> ]

(* lines 239-313 from question i on, up to the next await or the end.      *)
(* An invocation that reaches an await is parked in passes with the input   *)
(* it has already read; the awaits of one question are one suspension,      *)
(* since nothing read after the first of them comes from the session state. *)
(* The new PGlite() of line 250 comes before the first await: the parked    *)
(* invocation holds the new instance, to which nothing was submitted yet.   *)
RECURSIVE GradeFrom(_, _, _, _)
GradeFrom(m, i, totalScore, td) ==
    IF i > Len(m.state.questions) THEN FinishTail(m, totalScore, td)
    ELSE LET q == m.state.questions[i]
             answer == m.state.answers[q.id]
         IN  IF q.type = "sql-select"
             THEN IF Trim(answer) = <<>>
                  THEN GradeFrom([ m EXCEPT !.state.questions[i].isCorrect = "false",
                                            !.judged = Append(@, FALSE) ],
                                 i + 1, totalScore, td)
                  ELSE [ m EXCEPT !.passes =
                           Append(@, [ idx |-> i, totalScore |-> totalScore,
                                       input |-> StripTerminator(Trim(answer)),
                                       judged |-> m.judged,
                                       dbs |-> Append(m.dbs, <<>>) ]),
                                  !.judged = <<>>,
                                  !.dbs = <<>> ]
             ELSE [ m EXCEPT !.state.answers[q.id] = SortIds(answer),
                             !.passes =
                               Append(@, [ idx |-> i, totalScore |-> totalScore,
                                           input |-> Join(SortIds(answer)),
                                           judged |-> m.judged,
                                           dbs |-> m.dbs ]),
                             !.judged = <<>>,
                             !.dbs = <<>> ]

(* finishTest without the removeCheatListeners() of line 234 *)
finishTest_KeepsListeners(m, t, td) ==
    GradeFrom([ m EXCEPT !.timerInterval = FALSE,
                         !.state = [ recordTime(m.state, t) EXCEPT !.endTime = t ],
                         !.judged = <<>>,
                         !.dbs = <<>> ],
              1, 0, td)

(* lines 231-237: finishTest up to the loop, then the loop *)
finishTest(m, t, td) ==
    GradeFrom([ m EXCEPT !.timerInterval = FALSE,
                         !.state = [ recordTime(m.state, t) EXCEPT !.endTime = t ],
                         !.listeners = FALSE,
                         !.judged = <<>>,
                         !.dbs = <<>> ],
              1, 0, td)

(* the continuation assigning where line 311 accumulates (totalScore = q.points) *)
ResumePass_Overwrites(m, k, td) ==
    LET p == m.passes[k]
        q == m.state.questions[p.idx]
        correct == IF q.type = "sql-select" THEN GradeSql(q, p.input)
                   ELSE GradeChoice(q, p.input)
        total == IF correct THEN q.points ELSE p.totalScore
        used == IF q.type = "sql-select"
                THEN [ p.dbs EXCEPT ![Len(p.dbs)] =
                         @ \o Tagged(q.id, SqlRun(q, p.input).statements) ]
                ELSE p.dbs
    IN  IF q.type # "sql-select" /\ ~subtle
        THEN [ m EXCEPT !.passes = RemoveAt(@, k) ]
        ELSE GradeFrom([ m EXCEPT !.passes = RemoveAt(@, k),
                                  !.state.questions[p.idx].isCorrect =
                                      IF correct THEN "true" ELSE "false",
                                  !.judged = Append(p.judged, correct),
                                  !.dbs = used ],
                       p.idx + 1, total, td)

(* the k-th suspended invocation of finishTest gets its results and runs on. *)
(* The multiple-choice branch (lines 299-308) stands in no try: when the     *)
(* digest of line 303 rejects, the invocation ends there, and nothing after  *)
(* line 303 runs.  The SQL branch catches its errors (lines 260, 295).       *)
ResumePass(m, k, td) ==
    LET p == m.passes[k]
        q == m.state.questions[p.idx]
        correct == IF q.type = "sql-select" THEN GradeSql(q, p.input)
                   ELSE GradeChoice(q, p.input)
        total == IF correct THEN p.totalScore + q.points ELSE p.totalScore
        used == IF q.type = "sql-select"
                THEN [ p.dbs EXCEPT ![Len(p.dbs)] =
                         @ \o Tagged(q.id, SqlRun(q, p.input).statements) ]
                ELSE p.dbs
    IN  IF q.type # "sql-select" /\ ~subtle
        THEN [ m EXCEPT !.passes = RemoveAt(@, k) ]
        ELSE GradeFrom([ m EXCEPT !.passes = RemoveAt(@, k),
                                  !.state.questions[p.idx].isCorrect =
                                      IF correct THEN "true" ELSE "false",
                                  !.judged = Append(p.judged, correct),
                                  !.dbs = used ],
                       p.idx + 1, total, td)

(* updateTimer without the status test of line 49 *)
updateTimer_NoStatusGuard(m, t, td) ==
    LET limitMinutes == IF td.time_limit # 0 THEN td.time_limit ELSE 20
        limitMs == limitMinutes * 60 * 1000
        elapsed == t - m.state.startTime
        remaining == limitMs - elapsed
    IN  IF remaining <= 0
        THEN finishTest([ m EXCEPT !.timeLeft = ZeroTime, !.forced = @ + 1 ], t, td)
        ELSE [ m EXCEPT !.timeLeft = FormatRemaining(remaining) ]

(* updateTimer without the finishTest() of line 59 *)
updateTimer_NeverForces(m, t, td) ==
    IF m.status # "IN_PROGRESS" THEN m
    ELSE LET limitMinutes == IF td.time_limit # 0 THEN td.time_limit ELSE 20
             limitMs == limitMinutes * 60 * 1000
             elapsed == t - m.state.startTime
             remaining == limitMs - elapsed
         IN  IF remaining <= 0
             THEN [ m EXCEPT !.timeLeft = ZeroTime ]
             ELSE [ m EXCEPT !.timeLeft = FormatRemaining(remaining) ]

(* lines 48-66 *)
updateTimer(m, t, td) ==
    IF m.status # "IN_PROGRESS" THEN m
    ELSE LET limitMinutes == IF td.time_limit # 0 THEN td.time_limit ELSE 20
             limitMs == limitMinutes * 60 * 1000
             elapsed == t - m.state.startTime
             remaining == limitMs - elapsed
         IN  IF remaining <= 0
             THEN finishTest([ m EXCEPT !.timeLeft = ZeroTime, !.forced = @ + 1 ], t, td)
             ELSE [ m EXCEPT !.timeLeft = FormatRemaining(remaining) ]

(* lines 166-174 *)
startTest(m, t, td) ==
    LET started == [ m EXCEPT !.state.startTime = t,
                              !.state.lastQuestionEntryTime = t,
                              !.status = "IN_PROGRESS",
                              !.listeners = TRUE ]
    IN  [ updateTimer(started, t, td) EXCEPT !.timerInterval = TRUE ]

(* nextQuestion stamping the entry time outside the test of line 178 *)
nextQuestion_AlwaysStamps(m, t) ==
    LET timed == recordTime(m.state, t)
    IN  IF timed.currentIndex < Len(timed.questions) - 1
        THEN [ m EXCEPT !.state = [ timed EXCEPT !.currentIndex = @ + 1,
                                                 !.lastQuestionEntryTime = t ] ]
        ELSE [ m EXCEPT !.state = [ timed EXCEPT !.lastQuestionEntryTime = t ] ]

(* lines 176-182 *)
nextQuestion(m, t) ==
    LET timed == recordTime(m.state, t)
    IN  IF timed.currentIndex < Len(timed.questions) - 1
        THEN [ m EXCEPT !.state = [ timed EXCEPT !.currentIndex = @ + 1,
                                                 !.lastQuestionEntryTime = t ] ]
        ELSE [ m EXCEPT !.state = timed ]

(* lines 184-190 *)
prevQuestion(m, t) ==
    LET timed == recordTime(m.state, t)
    IN  IF timed.currentIndex > 0
        THEN [ m EXCEPT !.state = [ timed EXCEPT !.currentIndex = @ - 1,
                                                 !.lastQuestionEntryTime = t ] ]
        ELSE [ m EXCEPT !.state = timed ]

(* checkFocus comparing with > instead of the >= of line 208 *)
checkFocus_OffByOne(m, t, td, lost) ==
    IF m.status # "IN_PROGRESS" \/ ~lost THEN m
    ELSE LET counted == [ m EXCEPT !.state.cheatAttempts = @ + 1,
                                   !.state.cheatLogs = Append(@, t) ]
             maxCheats == td.max_cheat_attempts
         IN  IF maxCheats # 0 /\ counted.state.cheatAttempts > maxCheats
             THEN [ counted EXCEPT !.state.isBlocked = TRUE,
                                   !.state.endTime = t,
                                   !.status = "BLOCKED",
                                   !.listeners = FALSE ]
             ELSE counted

(* checkFocus comparing with the limit also when the document has none *)
checkFocus_NoAbsentTest(m, t, td, lost) ==
    IF m.status # "IN_PROGRESS" \/ ~lost THEN m
    ELSE LET counted == [ m EXCEPT !.state.cheatAttempts = @ + 1,
                                   !.state.cheatLogs = Append(@, t) ]
             maxCheats == td.max_cheat_attempts
         IN  IF counted.state.cheatAttempts >= maxCheats
             THEN [ counted EXCEPT !.state.isBlocked = TRUE,
                                   !.state.endTime = t,
                                   !.status = "BLOCKED",
                                   !.listeners = FALSE ]
             ELSE counted

(* lines 198-219; lost = the document is hidden or has lost focus *)
checkFocus(m, t, td, lost) ==
    IF m.status # "IN_PROGRESS" \/ ~lost THEN m
    ELSE LET counted == [ m EXCEPT !.state.cheatAttempts = @ + 1,
                                   !.state.cheatLogs = Append(@, t) ]
             maxCheats == td.max_cheat_attempts
         IN  IF maxCheats # 0 /\ counted.state.cheatAttempts >= maxCheats
             THEN [ counted EXCEPT !.state.isBlocked = TRUE,
                                   !.state.endTime = t,
                                   !.status = "BLOCKED",
                                   !.listeners = FALSE ]
             ELSE counted

(* QuestionMultipleChoice.vue lines 9-20, and the v-model write of line 410 *)
toggleOption(modelValue, optId) ==
    LET idx == IndexOf(modelValue, optId)
    IN  IF idx = 0 THEN Append(modelValue, optId) ELSE RemoveAt(modelValue, idx)

(* the dispatch without the endTime branch of lines 104-105 *)
resume_IgnoresEndTime(m, parsed, t, td) ==
    LET st == IF td.max_cheat_attempts # 0
                 /\ parsed.cheatAttempts >= td.max_cheat_attempts
              THEN [ parsed EXCEPT !.isBlocked = TRUE ]
              ELSE parsed
        loaded == [ m EXCEPT !.state = st ]
    IN  IF st.isBlocked THEN [ loaded EXCEPT !.status = "COMPLETED" ]
        ELSE IF st.startTime > 0
        THEN [ updateTimer([ loaded EXCEPT !.status = "IN_PROGRESS" ], t, td)
                 EXCEPT !.timerInterval = TRUE ]
        ELSE [ loaded EXCEPT !.status = "READY" ]

(* the dispatch stamping startTime again when it resumes, as startTest does *)
resume_RestartsClock(m, parsed, t, td) ==
    LET st == IF td.max_cheat_attempts # 0
                 /\ parsed.cheatAttempts >= td.max_cheat_attempts
              THEN [ parsed EXCEPT !.isBlocked = TRUE ]
              ELSE parsed
        loaded == [ m EXCEPT !.state = st ]
    IN  IF st.isBlocked THEN [ loaded EXCEPT !.status = "COMPLETED" ]
        ELSE IF st.endTime > 0 THEN [ loaded EXCEPT !.status = "COMPLETED" ]
        ELSE IF st.startTime > 0
        THEN [ updateTimer([ loaded EXCEPT !.status = "IN_PROGRESS",
                                           !.state.startTime = t ], t, td)
                 EXCEPT !.timerInterval = TRUE ]
        ELSE [ loaded EXCEPT !.status = "READY" ]

(* lines 95-114: the dispatch of onMounted on a parsed blob *)
resume(m, parsed, t, td) ==
    LET st == IF td.max_cheat_attempts # 0
                 /\ parsed.cheatAttempts >= td.max_cheat_attempts
              THEN [ parsed EXCEPT !.isBlocked = TRUE ]
              ELSE parsed
        loaded == [ m EXCEPT !.state = st ]
    IN  IF st.isBlocked THEN [ loaded EXCEPT !.status = "COMPLETED" ]
        ELSE IF st.endTime > 0 THEN [ loaded EXCEPT !.status = "COMPLETED" ]
        ELSE IF st.startTime > 0
        THEN [ updateTimer([ loaded EXCEPT !.status = "IN_PROGRESS" ], t, td)
                 EXCEPT !.timerInterval = TRUE ]
        ELSE [ loaded EXCEPT !.status = "READY" ]

-----------------------------------------------------------------------------
(* QuestionSqlSelect, the editor of an SQL question *)

Null == "null"

(* no editor is rendered *)
NoEditor ==
    [ mounted |-> FALSE, userQuery |-> <<>>, db |-> FreshDb, isDbReady |-> FALSE,
      booting |-> FALSE, errorMsg |-> Null, successMsg |-> Null,
      resultRows |-> <<>>, runs |-> <<>> ]

(* setup of the editor (its lines 13-20) and onMounted up to its first      *)
(* await (lines 26-29): userQuery is initialised from the modelValue prop   *)
NewEditor(modelValue) ==
    [ mounted |-> TRUE, userQuery |-> modelValue, db |-> FreshDb,
      isDbReady |-> FALSE, booting |-> TRUE, errorMsg |-> Null,
      successMsg |-> Null, resultRows |-> <<>>, runs |-> <<>> ]

(* the editor is rendered: lines 381 and 400-405 of QuizBlock.vue *)
EditorShown(st, s) ==
    /\ st = "IN_PROGRESS"
    /\ s.questions # <<>>
    /\ CurrentQuestion(s).type = "sql-select"

(* the render of lines 399-412 of QuizBlock.vue after a handler: the v-if   *)
(* has no key, so an editor on screen is kept and only its props change; an *)
(* editor is made when none was on screen, and unmounted when none is shown *)
Render(ed, st, s) ==
    IF EditorShown(st, s)
    THEN IF ed.mounted
         THEN ed
         ELSE NewEditor(s.answers[CurrentQuestion(s).id])
    ELSE NoEditor

(* onMounted of the editor after new PGlite(): lines 30-41 *)
onEditorMounted(ed, initSql) ==
    LET setup == RunSetup(ed.db, initSql)
    IN  IF setup.ok
        THEN [ ed EXCEPT !.db = setup.db, !.isDbReady = TRUE, !.booting = FALSE ]
        ELSE [ ed EXCEPT !.db = setup.db, !.errorMsg = "init", !.booting = FALSE ]

(* runQuery up to its await: lines 44-53 *)
runQuery(ed) ==
    IF Trim(ed.userQuery) = <<>> THEN ed
    ELSE [ ed EXCEPT !.errorMsg = Null, !.successMsg = Null, !.resultRows = <<>>,
                     !.runs = Append(@, ed.userQuery) ]

(* runQuery after its await, for the statement submitted first: lines 53-63 *)
runQueryResumes(ed) ==
    LET res == Query(ed.db, Head(ed.runs))
    IN  IF res.ok
        THEN [ ed EXCEPT !.resultRows = res.rows, !.successMsg = "rows",
                         !.runs = Tail(@) ]
        ELSE [ ed EXCEPT !.errorMsg = "raised", !.runs = Tail(@) ]

-----------------------------------------------------------------------------
(* The state machine *)

Component ==
    [ state |-> state, status |-> status, timeLeft |-> timeLeft,
      timerInterval |-> timerInterval, listeners |-> listeners,
      passes |-> passes, forced |-> forced, judged |-> judged,
      dbs |-> dbs, editor |-> editor ]

(* a handler has run in a component without the watcher of lines 124-130 *)
Becomes_NoWatch(m) ==
    /\ state' = m.state
    /\ status' = m.status
    /\ timeLeft' = m.timeLeft
    /\ timerInterval' = m.timerInterval
    /\ listeners' = m.listeners
    /\ passes' = m.passes
    /\ forced' = m.forced
    /\ judged' = m.judged
    /\ dbs' = m.dbs
    /\ stored' = stored
    /\ editor' = Render(m.editor, m.status, m.state)

(* a handler has run: the deep watcher of lines 124-130 writes the state    *)
(* to localStorage whenever the handler changed it                          *)
Becomes(m) ==
    /\ state' = m.state
    /\ status' = m.status
    /\ timeLeft' = m.timeLeft
    /\ timerInterval' = m.timerInterval
    /\ listeners' = m.listeners
    /\ passes' = m.passes
    /\ forced' = m.forced
    /\ judged' = m.judged
    /\ dbs' = m.dbs
    /\ stored' = IF m.state # state THEN JsonStringify(m.state) ELSE stored
    /\ editor' = Render(m.editor, m.status, m.state)

MaxNow == Epoch + MaxClockSteps * ClockStep

Init ==
    /\ props \in PropsChoices
    /\ isChrome \in BOOLEAN
    /\ subtle = TRUE
    /\ pc = "mount"
    /\ status = "INIT"
    /\ testData = NoData
    /\ state = InitialState
    /\ timeLeft = <<>>
    /\ timerInterval = FALSE
    /\ listeners = FALSE
    /\ passes = <<>>
    /\ forced = 0
    /\ judged = <<>>
    /\ dbs = <<>>
    /\ stored = NoBlob
    /\ now = Epoch
    /\ editor = Render(NoEditor, status, state)

(* line 79: an unsupported browser *)
MountUnsupported ==
    /\ pc = "mount"
    /\ ~isChrome
    /\ pc' = "idle"
    /\ UNCHANGED <<props, isChrome, subtle, status, testData, state, timeLeft, timerInterval,
                   listeners, passes, forced, judged, dbs, stored, now, editor>>

(* lines 79-84: onMounted up to the await of fetch *)
MountBegin ==
    /\ pc = "mount"
    /\ isChrome
    /\ status' = "LOADING"
    /\ pc' = "fetch"
    /\ UNCHANGED <<props, isChrome, subtle, testData, state, timeLeft, timerInterval,
                   listeners, passes, forced, judged, dbs, stored, now, editor>>

(* onMounted without the catch of lines 119-121 and the branch of lines 85-88 *)
FetchFails_StaysLoading ==
    /\ pc = "fetch"
    /\ pc' = "idle"
    /\ UNCHANGED <<props, isChrome, subtle, status, testData, state, timeLeft,
                   timerInterval, listeners, passes, forced, judged, dbs, stored, now, editor>>

(* lines 85-88 and 119-121: the response is not ok, or fetch / json() throws *)
FetchFails ==
    /\ pc = "fetch"
    /\ status' = "INIT"
    /\ pc' = "idle"
    /\ UNCHANGED <<props, isChrome, subtle, testData, state, timeLeft, timerInterval,
                   listeners, passes, forced, judged, dbs, stored, now, editor>>

(* lines 89-118: the document arrives *)
FetchOk ==
    /\ pc = "fetch"
    /\ \E n \in CheatLimits :
         LET td == Served(props.jsonPath, n)
         IN  /\ testData' = td
             /\ IF stored = CorruptBlob
                THEN Becomes([ Component EXCEPT !.status = "INIT" ])
                ELSE IF stored # NoBlob
                THEN Becomes(resume(Component, JsonParse(stored), now, td))
                ELSE \E st \in prepareQuestions(state, td, props) :
                         Becomes([ Component EXCEPT !.state = st, !.status = "READY" ])
    /\ pc' = "idle"
    /\ UNCHANGED <<props, isChrome, subtle, now>>

(* the "start" button of line 353 *)
StartTest ==
    /\ pc = "idle"
    /\ status = "READY"
    /\ Becomes(startTest(Component, now, testData))
    /\ UNCHANGED <<props, isChrome, subtle, pc, testData, now>>

(* the "next" button of lines 422-428, rendered unless the last question is shown *)
NextQuestion ==
    /\ pc = "idle"
    /\ status = "IN_PROGRESS"
    /\ state.currentIndex < Len(state.questions) - 1
    /\ Becomes(nextQuestion(Component, now))
    /\ UNCHANGED <<props, isChrome, subtle, pc, testData, now>>

(* the "back" button of lines 415-421, disabled on the first question *)
PrevQuestion ==
    /\ pc = "idle"
    /\ status = "IN_PROGRESS"
    /\ state.currentIndex # 0
    /\ Becomes(prevQuestion(Component, now))
    /\ UNCHANGED <<props, isChrome, subtle, pc, testData, now>>

(* a checkbox of the multiple-choice question on screen (lines 407-411) *)
ToggleOption ==
    /\ pc = "idle"
    /\ status = "IN_PROGRESS"
    /\ CurrentQuestion(state).type # "sql-select"
    /\ \E i \in 1..Len(CurrentQuestion(state).options) :
         LET qid == CurrentQuestion(state).id
             optId == CurrentQuestion(state).options[i]
         IN  Becomes([ Component EXCEPT
                         !.state.answers[qid] = toggleOption(@, optId) ])
    /\ UNCHANGED <<props, isChrome, subtle, pc, testData, now>>

(* typing into the editor of the SQL question on screen: the textarea sets  *)
(* userQuery, its watcher emits update:modelValue (lines 20-24 and 79-84 of *)
(* QuestionSqlSelect) and the v-model of line 404 stores the text under the *)
(* id of the question on screen                                             *)
Typing(texts) ==
    /\ pc = "idle"
    /\ status = "IN_PROGRESS"
    /\ CurrentQuestion(state).type = "sql-select"
    /\ editor.mounted
    /\ \E text \in texts :
         LET qid == CurrentQuestion(state).id
         IN  /\ text # editor.userQuery
             /\ Becomes([ Component EXCEPT !.state.answers[qid] = text,
                                           !.editor.userQuery = text ])
    /\ UNCHANGED <<props, isChrome, subtle, pc, testData, now>>

EditSql == Typing(SqlTexts)

(* the "finish" button of lines 429-431, rendered on the last question *)
FinishClick ==
    /\ pc = "idle"
    /\ status = "IN_PROGRESS"
    /\ ~(state.currentIndex < Len(state.questions) - 1)
    /\ Len(finishTest(Component, now, testData).passes) <= MaxPasses
    /\ Becomes(finishTest(Component, now, testData))
    /\ UNCHANGED <<props, isChrome, subtle, pc, testData, now>>

(* the interval of lines 110 and 173 fires *)
TimerTick ==
    /\ pc = "idle"
    /\ timerInterval
    /\ Len(updateTimer(Component, now, testData).passes) <= MaxPasses
    /\ Becomes(updateTimer(Component, now, testData))
    /\ UNCHANGED <<props, isChrome, subtle, pc, testData, now>>

(* the window fires blur or the document visibilitychange; checkFocus runs *)
(* if lines 222-223 attached it and lines 227-228 have not detached it      *)
FocusEvent ==
    /\ pc = "idle"
    /\ state.cheatAttempts < MaxViolations
    /\ \E lost \in BOOLEAN :
         Becomes(IF listeners THEN checkFocus(Component, now, testData, lost)
                 ELSE Component)
    /\ UNCHANGED <<props, isChrome, subtle, pc, testData, now>>

(* the same events, for as long as a session without a limit is followed *)
FocusEventAgain ==
    /\ pc = "idle"
    /\ state.cheatAttempts < MaxEvents
    /\ \E lost \in BOOLEAN :
         Becomes(IF listeners THEN checkFocus(Component, now, testData, lost)
                 ELSE Component)
    /\ UNCHANGED <<props, isChrome, subtle, pc, testData, now>>

(* a database or digest call of a suspended finishTest returns *)
GradingResumes ==
    /\ pc = "idle"
    /\ \E k \in 1..Len(passes) : Becomes(ResumePass(Component, k, testData))
    /\ UNCHANGED <<props, isChrome, subtle, pc, testData, now>>

(* lines 508-514: "close report" *)
CloseReport ==
    /\ pc = "idle"
    /\ status = "COMPLETED_VIEW"
    /\ Becomes([ Component EXCEPT !.status = "COMPLETED" ])
    /\ UNCHANGED <<props, isChrome, subtle, pc, testData, now>>

(* "show report" rendered without the v-else of line 372 *)
ShowReport_AlsoWhenBlocked ==
    /\ pc = "idle"
    /\ status = "COMPLETED"
    /\ Becomes([ Component EXCEPT !.status = "COMPLETED_VIEW" ])
    /\ UNCHANGED <<props, isChrome, subtle, pc, testData, now>>

(* lines 372-377: "show report" *)
ShowReport ==
    /\ pc = "idle"
    /\ status = "COMPLETED"
    /\ ~state.isBlocked
    /\ Becomes([ Component EXCEPT !.status = "COMPLETED_VIEW" ])
    /\ UNCHANGED <<props, isChrome, subtle, pc, testData, now>>

(* lines 363-370: "details" of an annulled test *)
ShowBlocked ==
    /\ pc = "idle"
    /\ status = "COMPLETED"
    /\ state.isBlocked
    /\ Becomes([ Component EXCEPT !.status = "BLOCKED" ])
    /\ UNCHANGED <<props, isChrome, subtle, pc, testData, now>>

(* lines 528-534: "close" on the blocked screen *)
CloseBlocked ==
    /\ pc = "idle"
    /\ status = "BLOCKED"
    /\ Becomes([ Component EXCEPT !.status = "COMPLETED" ])
    /\ UNCHANGED <<props, isChrome, subtle, pc, testData, now>>

(* the page is loaded again: a new component instance, the same localStorage *)
Reload ==
    /\ pc # "mount"
    /\ pc' = "mount"
    /\ status' = "INIT"
    /\ testData' = NoData
    /\ state' = InitialState
    /\ timeLeft' = <<>>
    /\ timerInterval' = FALSE
    /\ listeners' = FALSE
    /\ passes' = <<>>
    /\ forced' = 0
    /\ judged' = <<>>
    /\ dbs' = <<>>
    /\ editor' = NoEditor
    /\ UNCHANGED <<props, isChrome, subtle, stored, now>>

(* the wall clock *)
ClockAdvance ==
    /\ now + ClockStep <= MaxNow
    /\ now' = now + ClockStep
    /\ UNCHANGED <<props, isChrome, subtle, pc, status, testData, state, timeLeft,
                   timerInterval, listeners, passes, forced, judged, dbs, stored, editor>>

Next ==
    \/ MountUnsupported
    \/ MountBegin
    \/ FetchFails
    \/ FetchOk
    \/ StartTest
    \/ NextQuestion
    \/ PrevQuestion
    \/ ToggleOption
    \/ EditSql
    \/ FinishClick
    \/ TimerTick
    \/ FocusEvent
    \/ GradingResumes
    \/ CloseReport
    \/ ShowReport
    \/ ShowBlocked
    \/ CloseBlocked
    \/ Reload
    \/ ClockAdvance

Spec == Init /\ [][Next]_vars

-----------------------------------------------------------------------------
(* Properties *)

(* a step of the mounted component: not the page being loaded again, and    *)
(* not onMounted restoring the state                                        *)
InMount == pc = "idle" /\ pc' = "idle"

(* finishTest is entered in this step, by the button or by updateTimer *)
FinishEntered == FinishClick \/ (TimerTick /\ forced' # forced)

(* C1: once endTime > 0, the answers and the question timings never change  *)
(* again, whatever handler runs while the grading pass is suspended.        *)
C1_Freeze ==
    [][ (InMount /\ state.endTime > 0)
          => /\ state'.answers = state.answers
             /\ state'.questionTimings = state.questionTimings ]_vars

(* C2: entering finishTest when endTime is already > 0 leaves score, grade  *)
(* and endTime as they were.                                                *)
C2_FinishIdempotent ==
    [][ (FinishEntered /\ state.endTime > 0)
          => /\ state'.score = state.score
             /\ state'.grade = state.grade
             /\ state'.endTime = state.endTime ]_vars

(* C3: updateTimer enters finishTest at most once per session, fresh or     *)
(* resumed, and from then on the display reads 00:00.                       *)
C3_ForcedOnce ==
    /\ forced <= 1
    /\ forced >= 1 => timeLeft = ZeroTime

C5_LockoutImpliesEnded == state.isBlocked => state.endTime > 0

(* C6: once endTime > 0 no blur or visibility event (no step at all of the  *)
(* mounted component) changes cheatAttempts or cheatLogs; a violation is    *)
(* counted only in status IN_PROGRESS with endTime = 0.                     *)
C6_NoViolationAfterEnd ==
    [][ InMount
          => /\ state.endTime > 0
                  => /\ state'.cheatAttempts = state.cheatAttempts
                     /\ state'.cheatLogs = state.cheatLogs
             /\ (state'.cheatAttempts # state.cheatAttempts
                   \/ state'.cheatLogs # state.cheatLogs)
                  => status = "IN_PROGRESS" /\ state.endTime = 0 ]_vars

(* C6 happens: a violation was counted, then finishTest stamped endTime and *)
(* is suspended with the overlay still in status IN_PROGRESS                *)
C6_Witness ==
    /\ pc = "idle"
    /\ status = "IN_PROGRESS"
    /\ state.endTime > 0
    /\ state.cheatAttempts >= 1
    /\ passes # <<>>
    /\ ~state.isBlocked

(* C7: once endTime > 0 a tick of the interval changes nothing and starts   *)
(* no grading pass.                                                         *)
C7_TickAfterEndIsNoOp ==
    [][ (TimerTick /\ state.endTime > 0)
          => /\ state' = state
             /\ status' = status
             /\ passes' = passes
             /\ forced' = forced ]_vars

(* the blob onMounted finds, and the lockout test of lines 95-100 on it *)
Saved == JsonParse(stored)

SavedLockout(td) ==
    \/ Saved.isBlocked
    \/ td.max_cheat_attempts # 0 /\ Saved.cheatAttempts >= td.max_cheat_attempts

(* onMounted has received the document in this step *)
Dispatched == pc = "fetch" /\ pc' = "idle" /\ status' # "INIT"

(* the first updateTimer call of a resumed session forces the finish and    *)
(* the finish meets no await: the limit has passed and every selected       *)
(* question is an SQL question with a blank answer                          *)
ResumeFinishesAtOnce(td) ==
    /\ (IF td.time_limit # 0 THEN td.time_limit ELSE 20) * 60 * 1000
          - (now - Saved.startTime) <= 0
    /\ Saved.questions # <<>>
    /\ \A i \in 1..Len(Saved.questions) :
          /\ Saved.questions[i].type = "sql-select"
          /\ Trim(Saved.answers[Saved.questions[i].id]) = <<>>

(* C8 as stated: with a blob, lockout or endTime > 0 gives COMPLETED, else  *)
(* startTime > 0 gives IN_PROGRESS, else READY; without a blob a fresh      *)
(* selection and READY.                                                     *)
C8_ResumeDispatchAsStated ==
    [][ Dispatched
          => IF stored = NoBlob
             THEN status' = "READY" /\ state' \in prepareQuestions(InitialState, testData', props)
             ELSE IF SavedLockout(testData') \/ Saved.endTime > 0
                  THEN status' = "COMPLETED"
                  ELSE IF Saved.startTime > 0
                       THEN status' = "IN_PROGRESS"
                       ELSE status' = "READY" ]_vars

(* C8 amended: as C8, but a resumed session whose limit has already passed  *)
(* and whose forced finish meets no await leaves onMounted in               *)
(* COMPLETED_VIEW instead of IN_PROGRESS.                                   *)
C8_ResumeDispatch ==
    [][ Dispatched
          => IF stored = NoBlob
             THEN status' = "READY" /\ state' \in prepareQuestions(InitialState, testData', props)
             ELSE IF SavedLockout(testData') \/ Saved.endTime > 0
                  THEN status' = "COMPLETED"
                  ELSE IF Saved.startTime > 0
                       THEN IF ResumeFinishesAtOnce(testData')
                            THEN status' = "COMPLETED_VIEW"
                            ELSE status' = "IN_PROGRESS"
                       ELSE status' = "READY" ]_vars

(* C8 happens: onMounted resumed an expired all-blank SQL session and left  *)
(* it graded, in the report view, with the interval it created still live   *)
C8_Witness ==
    /\ pc = "idle"
    /\ status = "COMPLETED_VIEW"
    /\ forced = 1
    /\ timerInterval
    /\ passes = <<>>
    /\ state.endTime > state.startTime
    /\ state.startTime > 0

(* C9: a session resumed into IN_PROGRESS has the integrity listeners       *)
(* attached, as a freshly started one has.                                  *)
C9_ListenersWhileInProgress ==
    (pc = "idle" /\ status = "IN_PROGRESS" /\ state.endTime = 0) => listeners

(* what updateTimer shows for a remaining time *)
Shown(remaining) == IF remaining <= 0 THEN ZeroTime ELSE FormatRemaining(remaining)

(* C10: startTime is stamped by startTest alone; a stamped startTime in the *)
(* store is never rewritten, a resume restores it, and the time shown after *)
(* a resume is the limit minus the time since the stored startTime.         *)
C10_StartTimeKept ==
    [][ /\ (stored # NoBlob /\ Saved.startTime > 0)
             => stored' # NoBlob /\ JsonParse(stored').startTime = Saved.startTime
        /\ (InMount /\ state'.startTime # state.startTime)
             => status = "READY" /\ state.startTime = 0 /\ state'.startTime = now
        /\ (Dispatched /\ stored # NoBlob)
             => /\ state'.startTime = Saved.startTime
                /\ status' \in {"IN_PROGRESS", "COMPLETED_VIEW"}
                     => timeLeft' = Shown(testData'.time_limit * 60 * 1000
                                            - (now - Saved.startTime)) ]_vars

(* C10 happens: a session started earlier was resumed after its limit; the  *)
(* countdown did not restart, the display is 00:00 and the finish was forced *)
C10_Witness ==
    /\ pc = "idle"
    /\ forced = 1
    /\ timerInterval
    /\ state.startTime > 0
    /\ state.startTime < now
    /\ timeLeft = ZeroTime
    /\ stored # NoBlob
    /\ Saved.startTime = state.startTime

(* C11: a blocked session is never graded and never shows the report: from *)
(* the step that blocks it on, in the same mount and in the store across    *)
(* reloads, score and grade keep their values, no grading pass exists, and  *)
(* the status is BLOCKED or COMPLETED, never COMPLETED_VIEW.                *)
C11_BlockedScoreless ==
    [][ /\ (InMount /\ state'.isBlocked)
             => /\ state'.score = state.score
                /\ state'.grade = state.grade
                /\ passes' = <<>>
                /\ status' \in {"BLOCKED", "COMPLETED"}
        /\ (InMount /\ state.isBlocked) => state'.isBlocked
        /\ (stored # NoBlob /\ Saved.isBlocked)
             => /\ stored' # NoBlob
                /\ JsonParse(stored').isBlocked
                /\ JsonParse(stored').score = Saved.score
                /\ JsonParse(stored').grade = Saved.grade
        /\ (Dispatched /\ stored # NoBlob /\ SavedLockout(testData'))
             => /\ state'.isBlocked
                /\ state'.score = Saved.score
                /\ state'.grade = Saved.grade
                /\ passes' = <<>>
                /\ status' = "COMPLETED" ]_vars

(* C11 happens: a session blocked in an earlier mount was restored and its  *)
(* violation log opened; it carries no score and no grade                   *)
C11_Witness ==
    /\ pc = "idle"
    /\ status = "BLOCKED"
    /\ state.isBlocked
    /\ state.endTime > 0
    /\ ~timerInterval
    /\ state.score = 0
    /\ state.grade = 0

(* the edges of the status machine as the specification lists them;         *)
(* uninitialized and not-available are both the value INIT                  *)
StatedEdges ==
    { <<"INIT", "LOADING">>,
      <<"LOADING", "INIT">>, <<"LOADING", "READY">>,
      <<"LOADING", "IN_PROGRESS">>, <<"LOADING", "COMPLETED">>,
      <<"READY", "IN_PROGRESS">>,
      <<"IN_PROGRESS", "COMPLETED_VIEW">>, <<"IN_PROGRESS", "BLOCKED">>,
      <<"COMPLETED_VIEW", "COMPLETED">>, <<"COMPLETED", "COMPLETED_VIEW">>,
      <<"BLOCKED", "COMPLETED">> }

(* the status went from a to b inside one handler along one edge of E, or   *)
(* along two (onMounted resuming an expired session passes IN_PROGRESS)     *)
Along(E, a, b) ==
    \/ <<a, b>> \in E
    \/ \E mid \in {"IN_PROGRESS"} : <<a, mid>> \in E /\ <<mid, b>> \in E

(* C12 as stated: within one component instance the status changes only     *)
(* along the listed edges.                                                  *)
C12_StatusEdgesAsStated ==
    [][ (pc' # "mount" /\ status' # status) => Along(StatedEdges, status, status') ]_vars

(* C12 amended: the listed edges and the edge COMPLETED -> BLOCKED of the   *)
(* "details" button, which exists only for a blocked session.               *)
C12_StatusEdges ==
    [][ (pc' # "mount" /\ status' # status)
          => /\ Along(StatedEdges \cup { <<"COMPLETED", "BLOCKED">> }, status, status')
             /\ (status = "COMPLETED" /\ status' = "BLOCKED") => state.isBlocked ]_vars

(* C12 happens: a session blocked earlier was restored under a document     *)
(* without a limit and its log opened from the summary                      *)
C12_Witness ==
    /\ pc = "idle"
    /\ status = "BLOCKED"
    /\ testData.max_cheat_attempts = 0
    /\ forced = 0
    /\ ~timerInterval
    /\ stored # NoBlob
    /\ Saved.isBlocked

(* every selected question carries a verdict *)
AllGraded(st) ==
    \A i \in 1..Len(st.questions) : st.questions[i].isCorrect \in {"true", "false"}

(* C13: the handler in which updateTimer forces the finish (a tick, or      *)
(* onMounted resuming an expired session) ends with the session graded:     *)
(* every question has a verdict, the status is COMPLETED_VIEW and no part   *)
(* of finishTest is left to run after other handlers.                       *)
C13_ForcedFinishAtomic ==
    [][ (forced' > forced)
          => /\ passes' = <<>>
             /\ status' = "COMPLETED_VIEW"
             /\ AllGraded(state') ]_vars

(* the sum of the point values of a selection *)
PointsOf(questions) == SumSeq([ i \in 1..Len(questions) |-> questions[i].points ])

(* C14: score <= maxScore and maxScore is the sum of the points of the      *)
(* selected questions, in every state; maxScore is written only when        *)
(* onMounted draws the selection or restores the store, and the stored      *)
(* maxScore is never rewritten.                                             *)
C14_ScoreWithinMax ==
    [][ /\ state'.score <= state'.maxScore
        /\ state'.maxScore = PointsOf(state'.questions)
        /\ InMount => state'.maxScore = state.maxScore
        /\ (Dispatched /\ stored # NoBlob) => state'.maxScore = Saved.maxScore
        /\ stored # NoBlob
             => stored' # NoBlob /\ JsonParse(stored').maxScore = Saved.maxScore ]_vars

(* C14 happens: a started session was graded and every point was awarded *)
C14_Witness ==
    /\ pc = "idle"
    /\ status = "COMPLETED_VIEW"
    /\ state.startTime > 0
    /\ state.score > 0
    /\ state.score = state.maxScore
    /\ state.maxScore = PointsOf(state.questions)

(* the points of the questions a finishTest invocation found correct *)
Awarded(questions, verdicts) ==
    SumSeq([ i \in 1..Len(questions) |-> IF verdicts[i] THEN questions[i].points ELSE 0 ])

(* C15: a finishTest that has run to its end has visited every selected     *)
(* question once, in selection order, and has written as score the sum of   *)
(* the points of the questions it found correct; a suspended one has        *)
(* visited exactly the questions before the one it waits on.  With a single *)
(* question found correct, score = maxScore = its points.                   *)
C15_ScoreIsSum ==
    /\ \A k \in 1..Len(passes) :
          /\ Len(passes[k].judged) = passes[k].idx - 1
          /\ passes[k].totalScore = Awarded(SubSeq(state.questions, 1, passes[k].idx - 1),
                                            passes[k].judged)
    /\ judged # <<>>
         => /\ Len(judged) = Len(state.questions)
            /\ state.score = Awarded(state.questions, judged)
            /\ (Len(judged) = 1 /\ judged[1])
                 => /\ state.score = state.questions[1].points
                    /\ state.maxScore = state.questions[1].points

(* C15 happens: a selection of the one multiple-choice question, answered   *)
(* with exactly the correct options, was graded                             *)
C15_Witness ==
    /\ pc = "idle"
    /\ status = "COMPLETED_VIEW"
    /\ Len(state.questions) = 1
    /\ state.questions[1].type = "multiple-choice"
    /\ sha256(Join(SortIds(state.answers[state.questions[1].id])))
          = state.questions[1].correct_hash
    /\ judged = <<TRUE>>
    /\ state.score = state.questions[1].points
    /\ state.maxScore = state.score

-----------------------------------------------------------------------------
(* The grade loop of finishTest (lines 317-326) on its own: every grading   *)
(* mapping below, every selection of 1..MaxUnitQuestions one-point          *)
(* questions, every number of them found correct                            *)

MaxUnitQuestions == 4

UnitIds == <<"u1", "u2", "u3", "u4", "u5", "u6">>

UnitQuestion(i) == [ SqlQuestion EXCEPT !.id = UnitIds[i], !.points = 1 ]

(* grading mappings a document can carry: grade key -> minimum percentage *)
Gradings ==
    { Grading,
      [ g \in { <<"3">>, <<"5">> } |-> IF g = <<"3">> THEN 90 ELSE 50 ],
      [ g \in { <<"9">>, <<"1", "0">> } |-> IF g = <<"9">> THEN 80 ELSE 95 ],
      [ g \in { <<"3">>, <<"4">>, <<"5">> } |->
          IF g = <<"5">> THEN 100 ELSE IF g = <<"4">> THEN 50 ELSE 0 ],
      [ g \in { <<"5">> } |-> 60 ],
      [ g \in {} |-> 0 ] }

(* a session in progress over n one-point questions, about to be graded *)
GradeInit ==
    /\ props = [ jsonPath |-> "units", requiredIds |-> <<>>, count |-> MaxUnitQuestions ]
    /\ isChrome = TRUE
    /\ subtle = TRUE
    /\ pc = "idle"
    /\ status = "IN_PROGRESS"
    /\ \E g \in Gradings, n \in 1..MaxUnitQuestions :
         LET qs == [ i \in 1..n |-> UnitQuestion(i) ]
         IN  /\ testData = [ QuizDoc(0) EXCEPT !.grading = g, !.questions = qs ]
             /\ state = [ InitialState EXCEPT
                   !.questions = qs,
                   !.answers = [ id \in { qs[i].id : i \in 1..n } |-> <<>> ],
                   !.questionTimings = [ id \in { qs[i].id : i \in 1..n } |-> 0 ],
                   !.maxScore = n,
                   !.startTime = Epoch,
                   !.lastQuestionEntryTime = Epoch,
                   !.endTime = Epoch ]
    /\ timeLeft = <<>>
    /\ timerInterval = FALSE
    /\ listeners = FALSE
    /\ passes = <<>>
    /\ forced = 0
    /\ judged = <<>>
    /\ dbs = <<>>
    /\ stored = JsonStringify(state)
    /\ now = Epoch
    /\ editor = Render(NoEditor, status, state)

(* lines 315-327 after a loop that found totalScore points *)
GradeAwarded ==
    /\ status = "IN_PROGRESS"
    /\ \E totalScore \in 0..state.maxScore :
         Becomes(FinishTail(Component, totalScore, testData))
    /\ UNCHANGED <<props, isChrome, subtle, pc, testData, now>>

GradeNext == GradeAwarded \/ CloseReport \/ ShowReport

GradeSpec == GradeInit /\ [][GradeNext]_vars

(* the grades the rule "highest threshold <= percentage" allows, 2 if none *)
HighestThresholdGrades(score, maxScore, grading) ==
    LET ok == { k \in DOMAIN grading : score * 100 >= grading[k] * maxScore }
    IN  IF ok = {} THEN {2}
        ELSE { ParseInt(k) : k \in { c \in ok : \A o \in ok : grading[o] <= grading[c] } }

(* C16: the grade written by finishTest is the grade whose threshold is the *)
(* highest threshold <= score / maxScore * 100, for every grading mapping,  *)
(* and 2 when no threshold qualifies.                                       *)
C16_GradeSelection ==
    status \in {"COMPLETED_VIEW", "COMPLETED"}
      => state.grade \in HighestThresholdGrades(state.score, state.maxScore,
                                                testData.grading)

-----------------------------------------------------------------------------
(* prepareQuestions on its own: a first load of the pool document under     *)
(* every <QuizBlock> tag below, with every outcome of the random sorts      *)

MaxCount == 4

(* required-ids attributes: absent, known ids, repeated and unknown ids *)
RequiredChoices ==
    { <<>>, <<"q1">>, <<"q3", "q1">>, <<"q1", "q1">>, <<"zz">>, <<"zz", "q2">>,
      <<"q1", "q2", "q3">> }

PoolInit ==
    /\ props \in { [ jsonPath |-> "pool", requiredIds |-> r, count |-> c ] :
                      r \in RequiredChoices, c \in 0..MaxCount }
    /\ isChrome = TRUE
    /\ subtle = TRUE
    /\ pc = "mount"
    /\ status = "INIT"
    /\ testData = NoData
    /\ state = InitialState
    /\ timeLeft = <<>>
    /\ timerInterval = FALSE
    /\ listeners = FALSE
    /\ passes = <<>>
    /\ forced = 0
    /\ judged = <<>>
    /\ dbs = <<>>
    /\ stored = NoBlob
    /\ now = Epoch
    /\ editor = Render(NoEditor, status, state)

PoolNext == MountBegin \/ FetchFails \/ FetchOk

PoolSpec == PoolInit /\ [][PoolNext]_vars

(* the ids of a sequence of questions, and the ids of a sequence of ids *)
IdsOf(questions) == { questions[i].id : i \in 1..Len(questions) }

Range(s) == { s[i] : i \in 1..Len(s) }

(* sel is q with its options in some order *)
SameQuestion(sel, q) ==
    /\ [ sel EXCEPT !.options = q.options ] = q
    /\ sel.options \in Shuffles(q.options)

(* C17: the selection drawn by prepareQuestions holds every required id     *)
(* that exists in the question set, holds no id twice, and each of its      *)
(* questions is a question of the set.                                      *)
C17_SelectionSound ==
    status = "READY"
      => /\ (Range(props.requiredIds) \cap IdsOf(testData.questions))
               \subseteq IdsOf(state.questions)
         /\ \A i, j \in 1..Len(state.questions) :
               i # j => state.questions[i].id # state.questions[j].id
         /\ \A i \in 1..Len(state.questions) :
               \E k \in 1..Len(testData.questions) :
                   SameQuestion(state.questions[i], testData.questions[k])

(* C17 happens: two required questions, named last-first, were drawn with   *)
(* one more question and shuffled so that a required one comes last         *)
C17_Witness ==
    /\ status = "READY"
    /\ props.requiredIds = <<"q3", "q1">>
    /\ props.count = 3
    /\ Len(state.questions) = 3
    /\ state.questions[1].id = "q2"
    /\ state.questions[3].id = "q3"

Min(a, b) == IF a <= b THEN a ELSE b

(* the required ids that name a question of the set, each counted once *)
RequiredFound == Cardinality(Range(props.requiredIds) \cap IdsOf(testData.questions))

(* C18 as stated: the selection holds min(count, available) questions,      *)
(* whatever requiredIds and count are.                                      *)
C18_SelectionLengthAsStated ==
    status = "READY"
      => Len(state.questions) = Min(props.count, Len(testData.questions))

(* C18 amended: the selection holds min(count, available) questions when    *)
(* count is at least the number of required questions found in the set,     *)
(* and all the required questions found (more than count) otherwise.        *)
C18_SelectionLength ==
    status = "READY"
      => Len(state.questions)
           = Max(RequiredFound, Min(props.count, Len(testData.questions)))

(* C18 happens: three required questions under count = 1 were all selected *)
C18_Witness ==
    /\ status = "READY"
    /\ props.requiredIds = <<"q1", "q2", "q3">>
    /\ props.count = 1
    /\ Len(state.questions) = 3

-----------------------------------------------------------------------------
(* The multiple-choice path on its own: a started session over the one      *)
(* three-option question, its checkboxes toggled in every order, finished   *)
(* and graded                                                               *)

ChoiceInit ==
    /\ props = [ jsonPath |-> "choice", requiredIds |-> <<>>, count |-> 1 ]
    /\ isChrome = TRUE
    /\ subtle = TRUE
    /\ pc = "idle"
    /\ testData = Served("choice", 0)
    /\ now = Epoch
    /\ \E st \in prepareQuestions(InitialState, Served("choice", 0),
                                  [ jsonPath |-> "choice", requiredIds |-> <<>>, count |-> 1 ]) :
         LET m == startTest([ state |-> st, status |-> "READY", timeLeft |-> <<>>,
                              timerInterval |-> FALSE, listeners |-> FALSE,
                              passes |-> <<>>, forced |-> 0, judged |-> <<>>,
                              dbs |-> <<>>,
                              editor |-> NoEditor ],
                            Epoch, Served("choice", 0))
         IN  /\ state = m.state
             /\ status = m.status
             /\ timeLeft = m.timeLeft
             /\ timerInterval = m.timerInterval
             /\ listeners = m.listeners
             /\ passes = m.passes
             /\ forced = m.forced
             /\ judged = m.judged
             /\ dbs = m.dbs
             /\ stored = JsonStringify(m.state)
    /\ editor = Render(NoEditor, status, state)

ChoiceNext == ToggleOption \/ FinishClick \/ GradingResumes \/ CloseReport \/ ShowReport

ChoiceSpec == ChoiceInit /\ [][ChoiceNext]_vars

(* the members of a set of option ids in ascending order *)
RECURSIVE Ascending(_)
Ascending(S) ==
    IF S = {} THEN <<>>
    ELSE LET least == CHOOSE x \in S : \A y \in S : CharRank(x) <= CharRank(y)
         IN  <<least>> \o Ascending(S \ {least})

(* C19: whatever the order of the toggles, an answer lists each selected    *)
(* option once; the text finishTest hashes is the ascending, comma-joined   *)
(* set of selected ids; and the verdict is "correct" exactly when the hash  *)
(* of that text equals correct_hash.                                        *)
C19_OrderIndependent ==
    [][ /\ \A i \in 1..Len(state'.questions) :
              LET a == state'.answers[state'.questions[i].id]
              IN  Cardinality(Range(a)) = Len(a)
        /\ Len(passes') > Len(passes)
             => LET p == passes'[Len(passes')]
                    q == state.questions[p.idx]
                IN  p.input = Join(Ascending(Range(state.answers[q.id])))
        /\ Len(passes') < Len(passes)
             => \E k \in 1..Len(passes) :
                    LET p == passes[k]
                        q == state.questions[p.idx]
                    IN  /\ passes' = RemoveAt(passes, k)
                        /\ (state'.questions[p.idx].isCorrect = "true")
                             <=> (sha256(p.input) = q.correct_hash)
                        /\ state'.questions[p.idx].isCorrect \in {"true", "false"} ]_vars

(* C19 happens: the question shows its options as c, b, a; the two correct  *)
(* ones were selected and the answer was graded correct                     *)
C19_Witness ==
    /\ status = "COMPLETED_VIEW"
    /\ state.questions[1].options = <<"c", "b", "a">>
    /\ Range(state.answers["q4"]) = {"a", "b"}
    /\ state.questions[1].isCorrect = "true"
    /\ judged = <<TRUE>>
    /\ state.score = 1

-----------------------------------------------------------------------------
(* The SQL path on its own: a started session over two SQL questions, the   *)
(* first for every reference statement, both values of sort_required, every *)
(* typed answer and every init_sql of the document and of the question,     *)
(* finished and graded                                                      *)

SqlProps == [ jsonPath |-> "sql", requiredIds |-> <<>>, count |-> 2 ]

SqlInit ==
    /\ props = SqlProps
    /\ isChrome = TRUE
    /\ subtle = TRUE
    /\ pc = "idle"
    /\ now = Epoch
    /\ \E c \in RefTexts, b \in BOOLEAN, text \in StudentTexts,
          own \in SetupTexts, shared \in SetupTexts \ {<<<<"F">>>>} :
         LET q == [ SqlQuestion EXCEPT !.id = "q5", !.correct_query = c,
                                       !.sort_required = b, !.init_sql = own ]
             td == [ QuizDoc(0) EXCEPT !.questions = <<q, TableQuestion>>,
                                       !.init_sql = shared ]
         IN  /\ testData = td
             /\ \E st \in prepareQuestions(InitialState, td, SqlProps) :
                  LET m == startTest([ state |-> st, status |-> "READY",
                                       timeLeft |-> <<>>, timerInterval |-> FALSE,
                                       listeners |-> FALSE, passes |-> <<>>,
                                       forced |-> 0, judged |-> <<>>,
                                       dbs |-> <<>>,
                                       editor |-> NoEditor ],
                                     Epoch, td)
                      typed == [ m.state EXCEPT !.answers["q5"] = text,
                                                !.answers["q6"] = <<"V", ";">> ]
                  IN  /\ state = typed
                      /\ status = m.status
                      /\ timeLeft = m.timeLeft
                      /\ timerInterval = m.timerInterval
                      /\ listeners = m.listeners
                      /\ passes = m.passes
                      /\ forced = m.forced
                      /\ judged = m.judged
                      /\ dbs = m.dbs
                      /\ stored = JsonStringify(typed)
    /\ editor = Render(NoEditor, status, state)

SqlNext ==
    NextQuestion \/ FinishClick \/ GradingResumes \/ CloseReport \/ ShowReport

SqlSpec == SqlInit /\ [][SqlNext]_vars

(* two results hold the same rows the same number of times *)
SameMultiset(a, b) == \A v \in Range(a) \cup Range(b) : Count(a, v) = Count(b, v)

(* where the selection holds question id *)
At(id) == CHOOSE i \in 1..Len(state.questions) : state.questions[i].id = id

(* the statements finishTest submits for question q5 of a graded session *)
Submitted == StripTerminator(Trim(state.answers["q5"]))

Reference == StripTerminator(Trim(state.questions[At("q5")].correct_query))

(* the instance the question is graded on, after its setup statements *)
GradingSetup == RunSetup(FreshDb, state.questions[At("q5")].init_sql)

GradingDb == GradingSetup.db

(* C20: a graded SQL question with sort_required false whose student and    *)
(* reference statements both execute is correct if and only if the two      *)
(* results are equal as multisets of rows.                                  *)
C20_MultisetEquality ==
    ( /\ status \in {"COMPLETED_VIEW", "COMPLETED"}
      /\ ~state.questions[At("q5")].sort_required
      /\ GradingSetup.ok
      /\ Query(GradingDb, Submitted).ok
      /\ Query(GradingDb, Reference).ok )
      => ( state.questions[At("q5")].isCorrect = "true"
             <=> SameMultiset(Query(GradingDb, Submitted).rows,
                              Query(GradingDb, Reference).rows) )

(* the rows the two statements of question q5 return on the grading instance *)
StudentRows == Query(GradingDb, Submitted).rows

ReferenceRows == Query(GradingDb, Reference).rows

BothExecute ==
    /\ GradingSetup.ok
    /\ Query(GradingDb, Submitted).ok
    /\ Query(GradingDb, Reference).ok

(* C21: when the student's and the reference statement both execute and    *)
(* return the same rows in a different order, the graded question is        *)
(* incorrect if sort_required is true and correct if it is false; and with  *)
(* sort_required true a question graded correct has equal row sequences.    *)
C21_OrderedGrading ==
    ( status \in {"COMPLETED_VIEW", "COMPLETED"} /\ BothExecute )
      => /\ ( SameMultiset(StudentRows, ReferenceRows) /\ StudentRows # ReferenceRows )
              => ( state.questions[At("q5")].isCorrect = "true"
                     <=> ~state.questions[At("q5")].sort_required )
         /\ ( state.questions[At("q5")].sort_required
              /\ state.questions[At("q5")].isCorrect = "true" )
              => StudentRows = ReferenceRows

(* C22: a student statement that, after the removal of one trailing         *)
(* terminator, is the reference statement, and executes, is graded correct  *)
(* whatever sort_required is.                                               *)
C22_ReferenceIsCorrect ==
    ( /\ status \in {"COMPLETED_VIEW", "COMPLETED"}
      /\ BothExecute
      /\ Submitted = Reference )
      => state.questions[At("q5")].isCorrect = "true"

(* the questions for which some instance was given a statement *)
ServedIds(instances) ==
    UNION { { instances[i][j].id : j \in 1..Len(instances[i]) } :
                i \in 1..Len(instances) }

BlankAnswer == Trim(state.answers["q5"]) = <<>>

(* C23: an SQL question whose answer is empty or only white space is graded *)
(* incorrect without execution: no suspended or ended finishTest holds an   *)
(* instance for it, no statement is run for it, and it adds no points.      *)
C23_BlankNotExecuted ==
    BlankAnswer
      => /\ \A k \in 1..Len(passes) :
              /\ passes[k].idx # At("q5")
              /\ Len(passes[k].dbs) = 1
              /\ "q5" \notin ServedIds(passes[k].dbs)
         /\ status \in {"COMPLETED_VIEW", "COMPLETED"}
              => /\ state.questions[At("q5")].isCorrect = "false"
                 /\ Len(dbs) = 1
                 /\ ServedIds(dbs) = {"q6"}
                 /\ state.score = state.questions[At("q6")].points

(* C23 happens: the first question was left as white space, the second was  *)
(* graded on the only instance                                              *)
C23_Witness ==
    /\ status = "COMPLETED_VIEW"
    /\ state.answers["q5"] = <<" ">>
    /\ At("q5") = 1
    /\ state.questions[1].isCorrect = "false"
    /\ state.questions[2].isCorrect = "true"
    /\ Len(dbs) = 1

(* the k-th suspended invocation runs on in this step: it leaves passes,    *)
(* and is parked again at the end of passes if it meets another await       *)
Resumed(k) ==
    /\ passes' # passes
    /\ Len(passes') \in {Len(passes) - 1, Len(passes)}
    /\ SubSeq(passes', 1, Len(passes) - 1) = RemoveAt(passes, k)

(* C24: when the student's statement raises on its own, the question is     *)
(* marked incorrect at once: the instance has received the setup statements *)
(* and the student's statement and nothing else, the error does not leave   *)
(* finishTest, and the loop goes on to the next question, or to the tail    *)
(* when there is none.                                                      *)
C24_RaisingAnswer ==
    [][ \A k \in 1..Len(passes) :
          ( /\ passes[k].idx = At("q5")
            /\ GradingSetup.ok
            /\ ~Query(GradingDb, passes[k].input).ok
            /\ Resumed(k) )
            => /\ state'.questions[At("q5")].isCorrect = "false"
               /\ LET made == IF Len(passes') = Len(passes)
                               THEN passes'[Len(passes')].dbs ELSE dbs'
                  IN  made[Len(passes[k].dbs)]
                        = Tagged("q5", GradingSetup.ran \o <<passes[k].input>>)
               /\ IF At("q5") < Len(state.questions)
                  THEN /\ Len(passes') = Len(passes)
                       /\ passes'[Len(passes')].idx = At("q5") + 1
                       /\ status' = status
                  ELSE /\ Len(passes') = Len(passes) - 1
                       /\ status' = "COMPLETED_VIEW" ]_vars

(* C24 happens: the first question's answer X raised, the second question   *)
(* was graded after it                                                      *)
C24_Witness ==
    /\ status = "COMPLETED_VIEW"
    /\ state.answers["q5"] = <<"X">>
    /\ At("q5") = 1
    /\ state.questions[1].isCorrect = "false"
    /\ state.questions[2].isCorrect = "true"
    /\ dbs[1][Len(dbs[1])] = [ id |-> "q5", sql |-> <<"X">> ]
    /\ state.score = state.questions[2].points

-----------------------------------------------------------------------------
(* Failures during grading: a started session over the multiple-choice and  *)
(* the SQL question in both orders, in a page where crypto.subtle works or  *)
(* does not, with setup, reference and student statements that run or       *)
(* raise, finished and graded                                               *)

FaultProps == [ jsonPath |-> "quiz", requiredIds |-> <<"q2">>, count |-> 2 ]

FaultInit ==
    /\ props = FaultProps
    /\ isChrome = TRUE
    /\ subtle \in BOOLEAN
    /\ pc = "idle"
    /\ now = Epoch
    /\ \E c \in { <<"R", ";">>, <<"V">> }, own \in { <<>>, <<<<"F">>>> },
          text \in { <<"R">>, <<"X">> }, ticked \in { <<>>, <<"a">> } :
         LET q == [ SqlQuestion EXCEPT !.correct_query = c, !.init_sql = own ]
             td == [ QuizDoc(0) EXCEPT !.questions = <<McQuestion, q>> ]
         IN  /\ testData = td
             /\ \E st \in prepareQuestions(InitialState, td, FaultProps) :
                  LET m == startTest([ state |-> st, status |-> "READY",
                                       timeLeft |-> <<>>, timerInterval |-> FALSE,
                                       listeners |-> FALSE, passes |-> <<>>,
                                       forced |-> 0, judged |-> <<>>,
                                       dbs |-> <<>>,
                                       editor |-> NoEditor ],
                                     Epoch, td)
                      typed == [ m.state EXCEPT !.answers["q1"] = ticked,
                                                !.answers["q2"] = text ]
                  IN  /\ state = typed
                      /\ status = m.status
                      /\ timeLeft = m.timeLeft
                      /\ timerInterval = m.timerInterval
                      /\ listeners = m.listeners
                      /\ passes = m.passes
                      /\ forced = m.forced
                      /\ judged = m.judged
                      /\ dbs = m.dbs
                      /\ stored = JsonStringify(typed)
    /\ editor = Render(NoEditor, status, state)

FaultNext ==
    NextQuestion \/ FinishClick \/ GradingResumes \/ CloseReport \/ ShowReport

FaultSpec == FaultInit /\ [][FaultNext]_vars

(* C25: no failure while a question is graded ends finishTest: once         *)
(* finishTest has been entered and no invocation is suspended, every        *)
(* question has its verdict and the session is completed with its score     *)
(* and grade.                                                               *)
C25_FailureIsolated ==
    ( state.endTime # 0 /\ passes = <<>> )
      => /\ status \in {"COMPLETED_VIEW", "COMPLETED"}
         /\ \A i \in 1..Len(state.questions) : state.questions[i].isCorrect # "unset"
         /\ state.grade # 0

(* the questions among the first n of the selection that finishTest         *)
(* executes: SQL questions with an answer that is not blank                 *)
Executed(n) ==
    { i \in 1..n : /\ state.questions[i].type = "sql-select"
                   /\ Trim(state.answers[state.questions[i].id]) # <<>> }

(* every instance served one question, and no two the same one *)
OneQuestionEach(instances) ==
    /\ \A i \in 1..Len(instances) : Cardinality(ServedIds(<<instances[i]>>)) <= 1
    /\ \A i, j \in 1..Len(instances) :
         i # j => ServedIds(<<instances[i]>>) \cap ServedIds(<<instances[j]>>) = {}

(* C26: finishTest makes exactly one instance for each SQL question it      *)
(* executes, and the statements an instance receives all belong to one      *)
(* question: so it is for every suspended invocation up to the question it  *)
(* is at, and for the invocation that ended last.                           *)
C26_OneInstancePerQuestion ==
    /\ \A k \in 1..Len(passes) :
         /\ Len(passes[k].dbs) = Cardinality(Executed(passes[k].idx))
         /\ OneQuestionEach(passes[k].dbs)
    /\ judged # <<>>
         => /\ status \in {"COMPLETED_VIEW", "COMPLETED"}
            /\ Len(dbs) = Cardinality(Executed(Len(state.questions)))
            /\ OneQuestionEach(dbs)
            /\ ServedIds(dbs) = { state.questions[i].id : i \in Executed(Len(state.questions)) }

(* C26 happens: both questions were executed, each on its own instance *)
C26_Witness ==
    /\ status = "COMPLETED_VIEW"
    /\ state.answers["q5"] = <<"R">>
    /\ Len(dbs) = 2
    /\ ServedIds(<<dbs[1]>>) = {state.questions[1].id}
    /\ ServedIds(<<dbs[2]>>) = {state.questions[2].id}

(* the instance that the ended finishTest made for an executed question *)
InstanceOf(id) == dbs[Cardinality(Executed(At(id)))]

(* the setup statements that apply to question q5: the document's, then its own *)
Applying == testData.init_sql \o state.questions[At("q5")].init_sql

(* C27: for a graded, executed question whose applying setup statements     *)
(* run, the grading instance received all of them in order, then the        *)
(* student's statement, and holds what the editor's instance holds, so the  *)
(* student's statement returns there what it returned in the editor.        *)
C27_SetupAsInEditor ==
    ( /\ status \in {"COMPLETED_VIEW", "COMPLETED"}
      /\ ~BlankAnswer
      /\ RunSetup(FreshDb, Applying).ok )
      => /\ Len(InstanceOf("q5")) > Len(Applying)
         /\ SubSeq(InstanceOf("q5"), 1, Len(Applying) + 1)
              = Tagged("q5", Applying \o <<Submitted>>)
         /\ GradingDb = EditorDb(testData).db
         /\ Query(GradingDb, Submitted) = EditorRun(testData, state.answers["q5"])

(* C28 as stated: whenever no handler runs or is suspended, the stored blob *)
(* is the serialization of the current state.                               *)
C28_PersistedAsStated ==
    ( pc = "idle" /\ passes = <<>> ) => stored = JsonStringify(state)

(* the limit has passed for the stored session *)
SavedExpired(td) ==
    (IF td.time_limit # 0 THEN td.time_limit ELSE 20) * 60 * 1000
        - (now - Saved.startTime) <= 0

(* C28: after every step that leaves a loaded component (status READY,      *)
(* IN_PROGRESS, COMPLETED_VIEW or COMPLETED) the stored blob is the         *)
(* serialization of the state and parses back to it; and onMounted, finding *)
(* a blob, leaves the state equal to the parsed blob in every field, but    *)
(* for isBlocked when lines 95-100 raise it and for what a forced finish of *)
(* an expired session writes.                                               *)
C28_PersistedAndRestored ==
    [][ /\ status' \notin {"INIT", "LOADING"}
             => /\ stored' = JsonStringify(state')
                /\ JsonParse(stored') = state'
        /\ (Dispatched /\ stored # NoBlob)
             => /\ \A f \in {"startTime", "currentIndex", "cheatAttempts", "cheatLogs",
                             "maxScore", "lastQuestionEntryTime"} :
                       state'[f] = Saved[f]
                /\ IF SavedLockout(testData')
                   THEN state' = [ Saved EXCEPT !.isBlocked = TRUE ]
                   ELSE ( Saved.endTime > 0 \/ Saved.startTime = 0
                          \/ ~SavedExpired(testData') )
                          => state' = Saved ]_vars

(* C28 happens: a graded session was loaded again and stands restored, its  *)
(* verdicts included, with the blob equal to it                             *)
C28_Witness ==
    /\ pc = "idle"
    /\ status = "COMPLETED"
    /\ judged = <<>>
    /\ state.score > 0
    /\ \E i \in 1..Len(state.questions) : state.questions[i].isCorrect = "true"
    /\ \E i \in 1..Len(state.questions) : state.questions[i].isCorrect = "false"
    /\ stored = JsonStringify(state)

-----------------------------------------------------------------------------
(* Loading on its own: every page, in a supported or unsupported browser,   *)
(* with no stored item, an unreadable one, or the session of an earlier     *)
(* mount; loaded, started and loaded again, at once or later                *)

LoadInit ==
    /\ props \in PropsChoices
    /\ isChrome \in BOOLEAN
    /\ subtle = TRUE
    /\ pc = "mount"
    /\ status = "INIT"
    /\ testData = NoData
    /\ state = InitialState
    /\ timeLeft = <<>>
    /\ timerInterval = FALSE
    /\ listeners = FALSE
    /\ passes = <<>>
    /\ forced = 0
    /\ judged = <<>>
    /\ dbs = <<>>
    /\ stored \in {NoBlob, CorruptBlob}
    /\ now = Epoch
    /\ editor = Render(NoEditor, status, state)

LoadNext ==
    \/ MountUnsupported
    \/ MountBegin
    \/ FetchFails
    \/ FetchOk
    \/ StartTest
    \/ Reload
    \/ ClockAdvance

LoadSpec == LoadInit /\ [][LoadNext]_vars

(* onMounted ends in this step without a loaded document: the browser is    *)
(* unsupported, or the fetch failed, answered not-ok or could not be        *)
(* parsed (testData stays null), or the stored item could not be parsed     *)
LoadFailed ==
    /\ pc # "idle"
    /\ pc' = "idle"
    /\ (~isChrome \/ testData' = NoData \/ stored = CorruptBlob)

(* C29: when loading fails, onMounted ends with status INIT and has drawn   *)
(* no selection, started no timer, attached no listener, called no          *)
(* finishTest and written nothing to the store.                             *)
C29_LoadFailureSilent ==
    [][ LoadFailed
          => /\ status' = "INIT"
             /\ state' = InitialState
             /\ ~timerInterval'
             /\ ~listeners'
             /\ timeLeft' = <<>>
             /\ passes' = <<>>
             /\ stored' = stored ]_vars

(* C29 happens: a started session is in the store, the page was loaded      *)
(* again and the fetch failed                                               *)
C29_Witness ==
    /\ pc = "idle"
    /\ isChrome
    /\ status = "INIT"
    /\ testData = NoData
    /\ stored \notin {NoBlob, CorruptBlob}
    /\ JsonParse(stored).startTime > 0
    /\ state = InitialState
    /\ ~timerInterval

-----------------------------------------------------------------------------
(* A session whose document carries no max_cheat_attempts: started over     *)
(* both questions, the window losing focus again and again while the        *)
(* student moves between the questions and finishes                         *)

NoLimitProps == [ jsonPath |-> "quiz", requiredIds |-> <<"q2">>, count |-> 2 ]

NoLimitInit ==
    /\ props = NoLimitProps
    /\ isChrome = TRUE
    /\ subtle = TRUE
    /\ pc = "idle"
    /\ testData = Served("quiz", 0)
    /\ now = Epoch
    /\ \E st \in prepareQuestions(InitialState, Served("quiz", 0), NoLimitProps) :
         LET m == startTest([ state |-> st, status |-> "READY", timeLeft |-> <<>>,
                              timerInterval |-> FALSE, listeners |-> FALSE,
                              passes |-> <<>>, forced |-> 0, judged |-> <<>>,
                              dbs |-> <<>>,
                              editor |-> NoEditor ],
                            Epoch, Served("quiz", 0))
         IN  /\ state = m.state
             /\ status = m.status
             /\ timeLeft = m.timeLeft
             /\ timerInterval = m.timerInterval
             /\ listeners = m.listeners
             /\ passes = m.passes
             /\ forced = m.forced
             /\ judged = m.judged
             /\ dbs = m.dbs
             /\ stored = JsonStringify(m.state)
    /\ editor = Render(NoEditor, status, state)

NoLimitNext ==
    \/ FocusEventAgain
    \/ NextQuestion
    \/ PrevQuestion
    \/ FinishClick
    \/ GradingResumes
    \/ ClockAdvance

NoLimitSpec == NoLimitInit /\ [][NoLimitNext]_vars

(* C30: under a document without max_cheat_attempts no step sets isBlocked  *)
(* or moves to BLOCKED, and a step that counts a focus loss adds one to     *)
(* cheatAttempts, appends one line to cheatLogs and changes nothing else:   *)
(* not endTime, not the status, not the listeners.                          *)
C30_AbsentLimitUnlimited ==
    [][ ( testData # NoData /\ testData.max_cheat_attempts = 0 )
          => /\ ~state'.isBlocked
             /\ status' # "BLOCKED"
             /\ ( state'.cheatAttempts # state.cheatAttempts
                  \/ state'.cheatLogs # state.cheatLogs )
                  => /\ state' = [ state EXCEPT !.cheatAttempts = @ + 1,
                                                !.cheatLogs = Append(@, now) ]
                     /\ status' = status
                     /\ listeners' = listeners
                     /\ timerInterval' = timerInterval ]_vars

(* C30 happens: the focus was lost three times, at two different times, and *)
(* the session goes on                                                      *)
C30_Witness ==
    /\ testData.max_cheat_attempts = 0
    /\ state.cheatAttempts >= 3
    /\ Len(state.cheatLogs) = state.cheatAttempts
    /\ state.cheatLogs[1] # state.cheatLogs[3]
    /\ status = "IN_PROGRESS"
    /\ listeners
    /\ ~state.isBlocked
    /\ state.endTime = 0

-----------------------------------------------------------------------------
(* nextQuestion and prevQuestion called in any order at any index: a        *)
(* started session over three questions, the two functions called directly, *)
(* also where the buttons of lines 415-428 would not let them be called     *)

NavProps == [ jsonPath |-> "pool", requiredIds |-> <<"q1">>, count |-> 3 ]

NavInit ==
    /\ props = NavProps
    /\ isChrome = TRUE
    /\ subtle = TRUE
    /\ pc = "idle"
    /\ testData = Served("pool", 0)
    /\ now = Epoch
    /\ \E st \in prepareQuestions(InitialState, Served("pool", 0), NavProps) :
         LET m == startTest([ state |-> st, status |-> "READY", timeLeft |-> <<>>,
                              timerInterval |-> FALSE, listeners |-> FALSE,
                              passes |-> <<>>, forced |-> 0, judged |-> <<>>,
                              dbs |-> <<>>,
                              editor |-> NoEditor ],
                            Epoch, Served("pool", 0))
         IN  /\ state = m.state
             /\ status = m.status
             /\ timeLeft = m.timeLeft
             /\ timerInterval = m.timerInterval
             /\ listeners = m.listeners
             /\ passes = m.passes
             /\ forced = m.forced
             /\ judged = m.judged
             /\ dbs = m.dbs
             /\ stored = JsonStringify(m.state)
    /\ editor = Render(NoEditor, status, state)

(* a call of nextQuestion *)
CallNext ==
    /\ pc = "idle"
    /\ status = "IN_PROGRESS"
    /\ state.questionTimings[CurrentQuestion(state).id] < MaxRecorded
    /\ Becomes(nextQuestion(Component, now))
    /\ UNCHANGED <<props, isChrome, subtle, pc, testData, now>>

(* a call of prevQuestion *)
CallPrev ==
    /\ pc = "idle"
    /\ status = "IN_PROGRESS"
    /\ state.questionTimings[CurrentQuestion(state).id] < MaxRecorded
    /\ Becomes(prevQuestion(Component, now))
    /\ UNCHANGED <<props, isChrome, subtle, pc, testData, now>>

NavNext == CallNext \/ CallPrev \/ ClockAdvance

NavSpec == NavInit /\ [][NavNext]_vars

(* the state after a call that found the session at question index i, made *)
(* at time now: the time since the entry is added to that question's bucket *)
Accumulated ==
    state'.questionTimings =
        [ state.questionTimings EXCEPT ![CurrentQuestion(state).id] =
              @ + (now - state.lastQuestionEntryTime) ]

InRange(st) == 0 <= st.currentIndex /\ st.currentIndex <= Len(st.questions) - 1

-----------------------------------------------------------------------------
(* One mount of the page, followed to its end: the page is opened with an   *)
(* empty store or with the session started in an earlier mount, and is not  *)
(* loaded again; the interval keeps firing while it exists and every        *)
(* database and digest call returns                                         *)

(* the sessions an earlier mount of the page can have left running *)
RunningBlobs(p) ==
    { JsonStringify(startTest([ state |-> st, status |-> "READY", timeLeft |-> <<>>,
                                timerInterval |-> FALSE, listeners |-> FALSE,
                                passes |-> <<>>, forced |-> 0, judged |-> <<>>,
                                dbs |-> <<>>,
                                editor |-> NoEditor ],
                              Epoch, Served(p.jsonPath, 0)).state) :
        st \in prepareQuestions(InitialState, Served(p.jsonPath, 0), p) }

MountInit ==
    /\ props \in PropsChoices
    /\ isChrome = TRUE
    /\ subtle = TRUE
    /\ pc = "mount"
    /\ status = "INIT"
    /\ testData = NoData
    /\ state = InitialState
    /\ timeLeft = <<>>
    /\ timerInterval = FALSE
    /\ listeners = FALSE
    /\ passes = <<>>
    /\ forced = 0
    /\ judged = <<>>
    /\ dbs = <<>>
    /\ stored \in {NoBlob} \cup RunningBlobs(props)
    /\ now = Epoch
    /\ editor = Render(NoEditor, status, state)

MountNext ==
    \/ MountBegin
    \/ FetchFails
    \/ FetchOk
    \/ StartTest
    \/ NextQuestion
    \/ PrevQuestion
    \/ ToggleOption
    \/ EditSql
    \/ FinishClick
    \/ TimerTick
    \/ FocusEvent
    \/ GradingResumes
    \/ CloseReport
    \/ ShowReport
    \/ ShowBlocked
    \/ CloseBlocked
    \/ ClockAdvance

(* a tick would change something: the interval exists and updateTimer has   *)
(* a display to rewrite or a finish to force                                *)
TickCanFire ==
    /\ pc = "idle"
    /\ timerInterval
    /\ Len(updateTimer(Component, now, testData).passes) <= MaxPasses
    /\ updateTimer(Component, now, testData) # Component

(* an invocation of finishTest is suspended *)
GradingCanResume == pc = "idle" /\ passes # <<>>

(* weak fairness of TimerTick and of GradingResumes, the condition under    *)
(* which each is enabled written out: setInterval keeps calling updateTimer *)
(* until clearInterval, and every awaited call returns                      *)
MountSpec ==
    /\ MountInit
    /\ [][MountNext]_vars
    /\ ([]<>(~TickCanFire) \/ []<><<TimerTick>>_vars)
    /\ ([]<>(~GradingCanResume) \/ []<><<GradingResumes>>_vars)

(* the limit of the loaded document has passed for the session on screen *)
LimitPassed ==
    /\ testData # NoData
    /\ now - state.startTime
         >= (IF testData.time_limit # 0 THEN testData.time_limit ELSE 20) * 60 * 1000

(* C32: a session that is IN_PROGRESS when its limit has passed comes to    *)
(* have endTime > 0 and status COMPLETED_VIEW, or BLOCKED, provided the     *)
(* interval keeps firing while it exists and suspended grading resumes.     *)
C32_ExpiryEnds ==
    (status = "IN_PROGRESS" /\ LimitPassed)
      ~> (state.endTime > 0 /\ status \in {"COMPLETED_VIEW", "BLOCKED"})

(* C32 happens: a tick after the limit forced the finish and the session    *)
(* was graded                                                               *)
C32_Witness ==
    /\ status = "COMPLETED_VIEW"
    /\ LimitPassed
    /\ forced > 0
    /\ state.endTime > 0
    /\ passes = <<>>

(* C33: while an invocation of finishTest is suspended on an await, no step *)
(* enters finishTest again, neither the finish button nor a tick of the     *)
(* interval.                                                                *)
C33_SinglePass ==
    [][ passes # <<>> => ~FinishEntered ]_vars

(* C34: a stored blob that is complete and not blocked (endTime > 0,        *)
(* isBlocked false) holds a grade written by the tail of finishTest, never  *)
(* the grade 0 of the initial state.                                        *)
C34_CompleteIsGraded ==
    ( stored.json = "object" /\ Saved.endTime > 0 /\ ~Saved.isBlocked )
        => Saved.grade # 0

(* a status of a finished session, and a status of an open one *)
Finished == status \in {"COMPLETED_VIEW", "COMPLETED", "BLOCKED"}

Open == status \in {"READY", "IN_PROGRESS"}

(* C35: once the status is COMPLETED_VIEW, COMPLETED or BLOCKED it is never *)
(* READY or IN_PROGRESS again, in the same mount or after any reload that   *)
(* rehydrates the stored state.                                             *)
C35_CompletionIrreversible ==
    [](Finished => [](~Open))

(* a finished and graded session has been loaded again from the store *)
C35_Witness ==
    /\ pc = "idle"
    /\ status = "COMPLETED"
    /\ state.grade # 0
    /\ judged = <<>>
    /\ passes = <<>>
    /\ stored = JsonStringify(state)

(* the sum of the buckets of questionTimings *)
RECURSIVE SumOf(_, _)
SumOf(f, ids) ==
    IF ids = {} THEN 0
    ELSE LET id == CHOOSE x \in ids : TRUE
         IN  f[id] + SumOf(f, ids \ {id})

TotalTimed == SumOf(state.questionTimings, DOMAIN state.questionTimings)

(* C36: in a started session the buckets of questionTimings sum to at most  *)
(* the time since startTime, and once the session is finished to at most    *)
(* endTime - startTime: no interval is counted twice.                       *)
C36_NoIntervalTwice ==
    state.startTime > 0
        => /\ TotalTimed <= now - state.startTime
           /\ state.endTime > 0 => TotalTimed <= state.endTime - state.startTime

-----------------------------------------------------------------------------
(* The SQL editor on screen: one page with the multiple-choice question     *)
(* first and the two SQL questions of the pool after it, in either order;   *)
(* the student types, runs statements, moves between the questions and      *)
(* loads the page again                                                     *)

MaxRuns == 2

(* what is typed into the editor: nothing, a SELECT, a text that raises *)
EditorTexts == { <<>>, <<"R">>, <<"X">> }

EditorProps == [ jsonPath |-> "pool", requiredIds |-> <<"q1">>, count |-> 3 ]

EditorInit ==
    /\ props = EditorProps
    /\ isChrome = TRUE
    /\ subtle = TRUE
    /\ pc = "mount"
    /\ status = "INIT"
    /\ testData = NoData
    /\ state = InitialState
    /\ timeLeft = <<>>
    /\ timerInterval = FALSE
    /\ listeners = FALSE
    /\ passes = <<>>
    /\ forced = 0
    /\ judged = <<>>
    /\ dbs = <<>>
    /\ stored = NoBlob
    /\ now = Epoch
    /\ editor = Render(NoEditor, status, state)

TypeSql == Typing(EditorTexts)

(* the awaits of the editor's onMounted return *)
EditorReady ==
    /\ editor.mounted
    /\ editor.booting
    /\ editor' = onEditorMounted(editor, testData.init_sql)
    /\ UNCHANGED <<props, isChrome, subtle, pc, status, testData, state, timeLeft,
                   timerInterval, listeners, passes, forced, judged, dbs, stored, now>>

(* the run button, enabled once isDbReady (line 87 of the editor) *)
RunClick ==
    /\ editor.mounted
    /\ editor.isDbReady
    /\ Len(editor.runs) < MaxRuns
    /\ editor' = runQuery(editor)
    /\ UNCHANGED <<props, isChrome, subtle, pc, status, testData, state, timeLeft,
                   timerInterval, listeners, passes, forced, judged, dbs, stored, now>>

(* db.query returns or raises for the statement submitted first *)
RunSettles ==
    /\ editor.mounted
    /\ editor.runs # <<>>
    /\ editor' = runQueryResumes(editor)
    /\ UNCHANGED <<props, isChrome, subtle, pc, status, testData, state, timeLeft,
                   timerInterval, listeners, passes, forced, judged, dbs, stored, now>>

EditorNext ==
    \/ MountBegin
    \/ FetchOk
    \/ StartTest
    \/ NextQuestion
    \/ PrevQuestion
    \/ TypeSql
    \/ EditorReady
    \/ RunClick
    \/ RunSettles
    \/ Reload

EditorSpec == EditorInit /\ [][EditorNext]_vars

(* C37: while an SQL question is displayed, userQuery of the editor equals  *)
(* the answer stored under the id of that question, also after next / prev  *)
(* moves from one SQL question to another and after a resumed session       *)
(* displays a question again.                                               *)
C37_EditorShowsAnswer ==
    editor.mounted => editor.userQuery = state.answers[CurrentQuestion(state).id]

(* C38: whatever the interleaving of runQuery invocations, also when a run  *)
(* is started while an earlier one waits for its statement, errorMsg and    *)
(* successMsg of the editor are never both non-null.                        *)
C38_OneMessage ==
    editor.mounted => ~( editor.errorMsg # Null /\ editor.successMsg # Null )

====
